---------------------------- MODULE Spec2Model ----------------------------
(***************************************************************************)
(* A model of the wmrc skid: the record table loaded from Salesforce, its  *)
(* deduplication, and the yearly aggregations of src/wmrc/yearly.py and    *)
(* src/wmrc/summarize.py.                                                  *)
(*                                                                         *)
(* Column names, facility ids and calendar years are Python strings; they  *)
(* are modelled as sequences of one-character strings so that the string   *)
(* operations of the code (replace, slicing, lstrip, int()) are computed   *)
(* and not assumed.  Floating point values are modelled as exact rationals *)
(* extended with NaN and the two infinities (IEEE-754 without rounding).   *)
(***************************************************************************)
EXTENDS Integers, Sequences, FiniteSets, TLC

(***************************************************************************)
(* Bounds of the model.                                                    *)
(***************************************************************************)
MaxRows == 4
MaxYearRows == 2
MaxCountyRows == 4
MaxDedupRuns == 2

\* rows of a table handed to the year-over-year comparison
MaxMetricRows == 4

(***************************************************************************)
(* Generic sequence helpers.                                               *)
(***************************************************************************)
Range(s) == {s[i] : i \in 1..Len(s)}

SeqsUpTo(S, n) == UNION {[1..k -> S] : k \in 1..n}

RECURSIVE FilterSeq(_, _)
\* the sub-sequence of s at the positions of the set keep, in order
FilterSeq(s, keep) ==
    IF s = <<>> THEN <<>>
    ELSE LET n == Len(s)
             front == FilterSeq(SubSeq(s, 1, n - 1), keep)
         IN IF n \in keep THEN Append(front, s[n]) ELSE front

RECURSIVE UniqueSeq(_)
\* first occurrences of the elements of s, in order (pandas Series.unique)
UniqueSeq(s) ==
    IF s = <<>> THEN <<>>
    ELSE LET n == Len(s)
             front == UniqueSeq(SubSeq(s, 1, n - 1))
         IN IF s[n] \in Range(front) THEN front ELSE Append(front, s[n])

(***************************************************************************)
(* Python strings as sequences of characters.                              *)
(***************************************************************************)
IsPrefixAt(s, old, i) ==
    /\ i + Len(old) - 1 <= Len(s)
    /\ \A j \in 1..Len(old) : s[i + j - 1] = old[j]

RECURSIVE StrReplaceFrom(_, _, _, _)
StrReplaceFrom(s, old, new, i) ==
    IF i > Len(s) THEN <<>>
    ELSE IF IsPrefixAt(s, old, i)
         THEN new \o StrReplaceFrom(s, old, new, i + Len(old))
         ELSE <<s[i]>> \o StrReplaceFrom(s, old, new, i + 1)

\* str.replace(old, new) for a non-empty old: leftmost non-overlapping matches
StrReplace(s, old, new) == StrReplaceFrom(s, old, new, 1)

\* s[k:] for a 0-based k >= 0
StrFrom(s, k) == IF k >= Len(s) THEN <<>> ELSE SubSeq(s, k + 1, Len(s))

RECURSIVE StrLStrip(_, _)
\* str.lstrip(c) for a single character c
StrLStrip(s, c) ==
    IF s # <<>> /\ s[1] = c THEN StrLStrip(Tail(s), c) ELSE s

Digits == <<"0", "1", "2", "3", "4", "5", "6", "7", "8", "9">>

DigitVal(c) == (CHOOSE i \in 1..10 : Digits[i] = c) - 1

RECURSIVE ParseInt(_)
ParseInt(s) ==
    IF s = <<>> THEN 0
    ELSE 10 * ParseInt(SubSeq(s, 1, Len(s) - 1)) + DigitVal(s[Len(s)])

(***************************************************************************)
(* Floating point values: exact rationals n/d in lowest terms with d > 0,  *)
(* NaN and the signed infinities.  A missing value of a numeric column     *)
(* (None, np.nan) is NaN.                                                  *)
(***************************************************************************)
Abs(i) == IF i < 0 THEN -i ELSE i

Sign(i) == IF i < 0 THEN -1 ELSE IF i > 0 THEN 1 ELSE 0

RECURSIVE GCD(_, _)
GCD(a, b) == IF b = 0 THEN a ELSE GCD(b, a % b)

NaN == [k |-> "nan", n |-> 0, d |-> 1]

Inf(s) == [k |-> "inf", n |-> s, d |-> 1]

Frac(n, d) ==
    LET g == GCD(Abs(n), Abs(d))
    IN [k |-> "num", n |-> (Sign(d) * n) \div g, d |-> Abs(d) \div g]

F(i) == [k |-> "num", n |-> i, d |-> 1]

IsNaN(x) == x.k = "nan"

IsNum(x) == x.k = "num"

FAdd(a, b) ==
    IF IsNaN(a) \/ IsNaN(b) THEN NaN
    ELSE IF a.k = "inf" /\ b.k = "inf" THEN (IF a.n = b.n THEN a ELSE NaN)
    ELSE IF a.k = "inf" THEN a
    ELSE IF b.k = "inf" THEN b
    ELSE Frac(a.n * b.d + b.n * a.d, a.d * b.d)

FNeg(a) == IF IsNaN(a) THEN NaN ELSE [a EXCEPT !.n = -a.n]

\* Series - Series
FSub(a, b) == FAdd(a, FNeg(b))

FMul(a, b) ==
    IF IsNaN(a) \/ IsNaN(b) THEN NaN
    ELSE IF a.k = "inf" \/ b.k = "inf"
         THEN (IF a.n = 0 \/ b.n = 0 THEN NaN ELSE Inf(Sign(a.n) * Sign(b.n)))
    ELSE Frac(a.n * b.n, a.d * b.d)

\* numpy true division: x/0 is an infinity, 0/0 is NaN, no exception
FDiv(a, b) ==
    IF IsNaN(a) \/ IsNaN(b) THEN NaN
    ELSE IF a.k = "inf" THEN (IF b.k = "inf" THEN NaN
                             ELSE Inf(IF b.n < 0 THEN -a.n ELSE a.n))
    ELSE IF b.k = "inf" THEN F(0)
    ELSE IF b.n = 0 THEN (IF a.n = 0 THEN NaN ELSE Inf(Sign(a.n)))
    ELSE Frac(a.n * b.d, a.d * b.n)

RECURSIVE FSum(_)
\* Series.sum(): skipna=True, the sum of no values is 0
FSum(s) ==
    IF s = <<>> THEN F(0)
    ELSE LET rest == FSum(Tail(s))
         IN IF IsNaN(s[1]) THEN rest ELSE FAdd(s[1], rest)

\* DataFrame.fillna(v) on one value
FillNa(x, v) == IF IsNaN(x) THEN v ELSE x

\* Series.replace(0, np.nan) on one value
ReplaceZero(x) == IF IsNum(x) /\ x.n = 0 THEN NaN ELSE x

(***************************************************************************)
(* Column names, facility ids and calendar years.                          *)
(***************************************************************************)
Cache_County__c == <<"C", "a", "c", "h", "e", "_", "C", "o", "u", "n", "t", "y", "_", "_", "c">>

Utah_County__c == <<"U", "t", "a", "h", "_", "C", "o", "u", "n", "t", "y", "_", "_", "c">>

Out_of_State__c == <<"O", "u", "t", "_", "o", "f", "_", "S", "t", "a", "t", "e", "_", "_", "c">>

StatewideName == <<"S", "t", "a", "t", "e", "w", "i", "d", "e">>

OutOfStateName == <<"O", "u", "t", " ", "o", "f", " ", "S", "t", "a", "t", "e">>

DunderC == <<"_", "_", "c">>

Underscore == <<"_">>

Space == <<" ">>

CommaSpace == <<",", " ">>

\* characters in ASCII order, for the comparison of Python strings
Alphabet ==
    <<" ", ",", "0", "1", "2", "3", "4", "5", "6", "7", "8", "9",
      "A", "B", "C", "D", "E", "F", "G", "H", "I", "J", "K", "L", "M",
      "N", "O", "P", "Q", "R", "S", "T", "U", "V", "W", "X", "Y", "Z", "_",
      "a", "b", "c", "d", "e", "f", "g", "h", "i", "j", "k", "l", "m",
      "n", "o", "p", "q", "r", "s", "t", "u", "v", "w", "x", "y", "z">>

CharRank(c) == CHOOSE i \in 1..Len(Alphabet) : Alphabet[i] = c

RECURSIVE StrLess(_, _)
\* a < b on Python strings
StrLess(a, b) ==
    IF b = <<>> THEN FALSE
    ELSE IF a = <<>> THEN TRUE
    ELSE IF a[1] = b[1] THEN StrLess(Tail(a), Tail(b))
    ELSE CharRank(a[1]) < CharRank(b[1])

SW01 == <<"S", "W", "0", "1">>

SW02 == <<"S", "W", "0", "2">>

Y2022 == <<"2", "0", "2", "2">>

Y2023 == <<"2", "0", "2", "3">>

FacilityIds == {SW01, SW02}

Years == {Y2022, Y2023}

\* LastModifiedDate as yyyymmdd; the last two lie in years after 2022
Dates == {20220101, 20230102, 20240103}

\* a freshly loaded table has a RangeIndex: row i carries the label i - 1
WithRangeIndex(rows) == [i \in 1..Len(rows) |-> [rows[i] EXCEPT !.index = i - 1]]

(***************************************************************************)
(* The state.  A table is a sequence of rows; a row is a record of its     *)
(* columns.  `index` is the pandas index label of a row of records.df and  *)
(* `county` holds its county share columns, keyed by column name.          *)
(***************************************************************************)
VARIABLES
    df,                  \* records.df, the record table
    raw_df,              \* the table as extracted, before any deduplication
    county_fields,       \* records.county_fields
    duplicate_ids,       \* the report returned by the last deduplication
    dedup_runs,          \* how many times the deduplicator has run
    pc,                  \* the summary to compute next
    county_by_year,      \* groupby(year).apply(yearly.county_summaries)
    county_df,           \* the table returned by summarize.counties
    statewide,           \* groupby(data_year).apply(yearly.statewide_metrics)
    facility_metrics,    \* the table returned by summarize.facility_metrics
    diverted_by_year,    \* groupby(year).apply(yearly.facility_tons_diverted_from_landfills)
    facility_summaries,  \* the table returned by summarize.facilities
    classification,      \* rates_per_material: the classification asked for
    renamed_fields,      \* rates_per_material: the caller's list of material fields
    total_field,         \* rates_per_material: the field the percents refer to
    material_rates,      \* the table returned by yearly.rates_per_material
    metrics_df,          \* _year_over_year_changes: the table indexed by year and entity
    current_year,        \* _year_over_year_changes: the year compared with the one before
    changes,             \* the table returned by validate._year_over_year_changes
    without_null_years,  \* the table returned by validate.remove_facilities_with_null_years
    all_columns,         \* _build_field_mapping: the columns of all_columns_df
    field_mapping,       \* the mapping returned by helpers._build_field_mapping
    error,               \* the exception raised by the last call, if any
    recovery_rates,      \* the series returned by the recovery rate function called
    first_run,           \* the tables of the first run of the aggregators, once run again
    given_fields,        \* _update_fields: the list as it was before the first call
    aggregated,          \* Skid.process: the tables computed so far
    loads,               \* Skid.process: the layers truncated and loaded so far, in order
    summary_sent         \* Skid.process: whether the supervisor was notified

vars == <<df, raw_df, county_fields, duplicate_ids, dedup_runs, pc, county_by_year,
          county_df, statewide, facility_metrics, diverted_by_year, facility_summaries,
          classification, renamed_fields, total_field, material_rates, metrics_df, current_year,
          changes, without_null_years, all_columns, field_mapping, error,
          recovery_rates, first_run, given_fields, aggregated, loads, summary_sent>>

records == <<df, raw_df, county_fields>>

dedup_vars == <<duplicate_ids, dedup_runs>>

county_vars == <<county_by_year, county_df>>

facility_vars == <<diverted_by_year, facility_summaries>>

material_vars == <<classification, renamed_fields, total_field, material_rates>>

validation_vars == <<metrics_df, current_year, changes, without_null_years>>

mapping_vars == <<all_columns, field_mapping>>

rerun_vars == <<recovery_rates, first_run, given_fields>>

process_vars == <<aggregated, loads, summary_sent>>

\* no exception
NoError == [type |-> "", args |-> <<>>]

\* no material rates asked for
NoMaterials ==
    /\ classification = ""
    /\ renamed_fields = <<>>
    /\ total_field = <<>>
    /\ material_rates = <<>>

\* nothing to validate
NoValidation ==
    /\ metrics_df = <<>>
    /\ current_year = 0
    /\ changes = <<>>
    /\ without_null_years = <<>>

\* no field mapping asked for
NoMapping ==
    /\ all_columns = {}
    /\ field_mapping = <<>>

\* no recovery rates asked for and no second run
NoRerun ==
    /\ recovery_rates = <<>>
    /\ first_run = <<>>
    /\ given_fields = <<>>

\* Skid.process not started
NoProcess ==
    /\ aggregated = {}
    /\ loads = <<>>
    /\ summary_sent = FALSE

NoDuplicates == [f \in {} |-> <<>>]

\* nothing has been deduplicated or summarized yet
NothingComputed ==
    /\ duplicate_ids = NoDuplicates
    /\ dedup_runs = 0
    /\ county_by_year = <<>>
    /\ county_df = <<>>
    /\ statewide = <<>>
    /\ facility_metrics = <<>>
    /\ diverted_by_year = <<>>
    /\ facility_summaries = <<>>
    /\ material_rates = <<>>
    /\ changes = <<>>
    /\ without_null_years = <<>>
    /\ field_mapping = <<>>
    /\ error = NoError

(***************************************************************************)
(* SalesForceRecords.deduplicate_records_on_facility_id                    *)
(***************************************************************************)
SameKey(a, b) ==
    a.facility_id = b.facility_id /\ a.Calendar_Year__c = b.Calendar_Year__c

\* duplicates looked for on facility_id alone
DuplicatedOnFacilityOnly(table) ==
    {i \in 1..Len(table) :
        \E j \in 1..Len(table) : j # i /\ table[i].facility_id = table[j].facility_id}

\* DataFrame.duplicated(subset=[facility_id, Calendar_Year__c], keep=False)
DuplicatedRows(table) ==
    {i \in 1..Len(table) : \E j \in 1..Len(table) : j # i /\ SameKey(table[i], table[j])}

RECURSIVE StrJoin(_, _)
\* sep.join(list)
StrJoin(sep, list) ==
    IF list = <<>> THEN <<>>
    ELSE IF Len(list) = 1 THEN list[1]
    ELSE list[1] \o sep \o StrJoin(sep, Tail(list))

\* facility_id -> the calendar years in which it has duplicates, in order of
\* first appearance, joined into one string (the separator is not fixed by
\* the documentation; a comma and a space are used)
DuplicatedFacilityIds(table) ==
    LET dups == FilterSeq(table, DuplicatedRows(table))
        ids == {dups[i].facility_id : i \in 1..Len(dups)}
        yearsOf(f) ==
            UniqueSeq(LET mine == FilterSeq(dups, {i \in 1..Len(dups) : dups[i].facility_id = f})
                      IN [i \in 1..Len(mine) |-> mine[i].Calendar_Year__c])
    IN [f \in ids |-> StrJoin(CommaSpace, yearsOf(f))]

RECURSIVE SortTiesReversed(_)
\* a sort that is not stable: a row goes in front of the rows of equal date
SortTiesReversed(table) ==
    IF table = <<>> THEN <<>>
    ELSE LET n == Len(table)
             front == SortTiesReversed(SubSeq(table, 1, n - 1))
             k == Cardinality({i \in 1..Len(front) :
                                  front[i].LastModifiedDate < table[n].LastModifiedDate})
         IN SubSeq(front, 1, k) \o <<table[n]>> \o SubSeq(front, k + 1, Len(front))

RECURSIVE SortByLastModified(_)
\* a stable ascending sort on LastModifiedDate: each row goes behind the
\* rows sorted so far that are not later than it
SortByLastModified(table) ==
    IF table = <<>> THEN <<>>
    ELSE LET n == Len(table)
             front == SortByLastModified(SubSeq(table, 1, n - 1))
             k == Cardinality({i \in 1..Len(front) :
                                  front[i].LastModifiedDate <= table[n].LastModifiedDate})
         IN SubSeq(front, 1, k) \o <<table[n]>> \o SubSeq(front, k + 1, Len(front))

\* keep="first" in place of keep="last"
DropDuplicatesKeepFirst(table) ==
    FilterSeq(table, {i \in 1..Len(table) :
                         \A j \in 1..(i - 1) : ~SameKey(table[i], table[j])})

\* DataFrame.drop_duplicates(subset=[facility_id, Calendar_Year__c], keep="last")
DropDuplicatesKeepLast(table) ==
    FilterSeq(table, {i \in 1..Len(table) :
                         \A j \in (i + 1)..Len(table) : ~SameKey(table[i], table[j])})

DeduplicatedTable(table) == DropDuplicatesKeepLast(SortByLastModified(table))

Deduplicate ==
    /\ dedup_runs < MaxDedupRuns
    /\ duplicate_ids' = DuplicatedFacilityIds(df)
    /\ df' = DeduplicatedTable(df)
    /\ dedup_runs' = dedup_runs + 1
    /\ UNCHANGED <<material_vars, validation_vars, mapping_vars, error, rerun_vars, process_vars>>
    /\ UNCHANGED <<raw_df, county_fields, pc, county_vars, statewide,
                   facility_metrics, facility_vars>>

DedupRow(f, y, d) ==
    [index |-> 0, facility_id |-> f, Calendar_Year__c |-> y, LastModifiedDate |-> d]

DedupRows == {DedupRow(f, y, d) : f \in FacilityIds, y \in Years, d \in Dates}

InitDedup ==
    /\ \E rows \in SeqsUpTo(DedupRows, MaxRows) : raw_df = WithRangeIndex(rows)
    /\ df = raw_df
    /\ county_fields = <<>>
    /\ pc = "deduplicate"
    /\ NothingComputed
    /\ classification = "" /\ renamed_fields = <<>> /\ total_field = <<>>
    /\ metrics_df = <<>> /\ current_year = 0
    /\ all_columns = {}
    /\ NoRerun /\ NoProcess

NextDedup == Deduplicate

SpecDedup == InitDedup /\ [][NextDedup]_vars

(***************************************************************************)
(* DataFrame.groupby("Calendar_Year__c"): the groups come in ascending     *)
(* order of the key, the rows of a group in their original order.          *)
(***************************************************************************)
RECURSIVE SortedStrs(_)
SortedStrs(S) ==
    IF S = {} THEN <<>>
    ELSE LET m == CHOOSE x \in S : \A y \in S \ {x} : StrLess(x, y)
         IN <<m>> \o SortedStrs(S \ {m})

RECURSIVE SortedInts(_)
SortedInts(S) ==
    IF S = {} THEN <<>>
    ELSE LET m == CHOOSE x \in S : \A y \in S : x <= y
         IN <<m>> \o SortedInts(S \ {m})

RECURSIVE Flatten(_)
\* pd.concat of the per-group results
Flatten(tables) ==
    IF tables = <<>> THEN <<>> ELSE tables[1] \o Flatten(Tail(tables))

CalendarYears(table) ==
    SortedStrs({table[i].Calendar_Year__c : i \in 1..Len(table)})

YearSlice(table, year) ==
    FilterSeq(table, {i \in 1..Len(table) : table[i].Calendar_Year__c = year})

\* helpers.convert_to_int on a string of digits
convert_to_int(s) == ParseInt(s)

(***************************************************************************)
(* yearly.county_summaries                                                 *)
(***************************************************************************)
\* table[field] as a sequence of values
Column(table, field) == [i \in 1..Len(table) |-> table[i][field]]

\* a rate of 0 where nothing was diverted and nothing landfilled
RateZeroWhenEmpty(diverted, landfilled) ==
    IF FAdd(diverted, landfilled) = F(0) THEN F(0)
    ELSE FMul(FDiv(diverted, FAdd(diverted, landfilled)), F(100))

\* diverted / (diverted + landfilled) * 100
RecyclingRate(diverted, landfilled) ==
    FMul(FDiv(diverted, FAdd(diverted, landfilled)), F(100))

\* the MSW modifier applied to the landfilled tons as well
CountyLandfilledWithMsw(year_df, county) ==
    LET share(r) == FMul(FMul(FDiv(r.county[county], F(100)),
                              FDiv(r.Municipal_Solid_Waste__c, F(100))),
                         r.Municipal_Waste_In_State_in_Tons__c)
    IN FSum([i \in 1..Len(year_df) |-> share(year_df[i])])

\* landfilled_df[county].sum()
CountyLandfilled(year_df, county) ==
    LET share(r) == FMul(FDiv(r.county[county], F(100)),
                         r.Municipal_Waste_In_State_in_Tons__c)
    IN FSum([i \in 1..Len(year_df) |-> share(year_df[i])])

\* recycling_df[county].sum(), composted_df[county].sum(), digested_df[county].sum()
\* for field the recycled, composting or AD/C column of the records
CountyDiverted(year_df, county, field) ==
    LET msw_modifier(r) == FDiv(r.Municipal_Solid_Waste__c, F(100))
        share(r) == FMul(FMul(FDiv(r.county[county], F(100)), msw_modifier(r)), r[field])
    IN FSum([i \in 1..Len(year_df) |-> share(year_df[i])])

CountyTotals(year_df, county) ==
    [name |-> county,
     county_wide_msw_recycled |->
         CountyDiverted(year_df, county, "Combined_Total_of_Material_Recycled__c"),
     county_wide_msw_composted |->
         CountyDiverted(year_df, county, "Total_Materials_sent_to_composting__c"),
     county_wide_msw_digested |->
         CountyDiverted(year_df, county, "Total_Material_managed_by_ADC__c"),
     county_wide_msw_landfilled |-> CountyLandfilled(year_df, county)]

\* the Statewide row left out of the concatenation
WithoutStatewideRow(counties) == counties

\* the Statewide row summed over the counties of the state only
WithInStateStatewideRow(counties) ==
    LET in_state == FilterSeq(counties, {j \in 1..Len(counties) :
                                            counties[j].name # Out_of_State__c})
    IN Append(counties,
              [name |-> StatewideName,
               county_wide_msw_recycled |-> FSum(Column(in_state, "county_wide_msw_recycled")),
               county_wide_msw_composted |->
                   FSum(Column(in_state, "county_wide_msw_composted")),
               county_wide_msw_digested |-> FSum(Column(in_state, "county_wide_msw_digested")),
               county_wide_msw_landfilled |->
                   FSum(Column(in_state, "county_wide_msw_landfilled"))])

\* statewide = counties_df.sum(); pd.concat([counties_df, statewide row])
WithStatewideRow(counties) ==
    Append(counties,
           [name |-> StatewideName,
            county_wide_msw_recycled |-> FSum(Column(counties, "county_wide_msw_recycled")),
            county_wide_msw_composted |-> FSum(Column(counties, "county_wide_msw_composted")),
            county_wide_msw_digested |-> FSum(Column(counties, "county_wide_msw_digested")),
            county_wide_msw_landfilled |->
                FSum(Column(counties, "county_wide_msw_landfilled"))])

WithCountyRate(c) ==
    LET diverted == FAdd(FAdd(c.county_wide_msw_recycled, c.county_wide_msw_composted),
                         c.county_wide_msw_digested)
    IN [name |-> c.name,
        county_wide_msw_recycled |-> c.county_wide_msw_recycled,
        county_wide_msw_composted |-> c.county_wide_msw_composted,
        county_wide_msw_digested |-> c.county_wide_msw_digested,
        county_wide_msw_landfilled |-> c.county_wide_msw_landfilled,
        county_wide_msw_diverted_total |-> diverted,
        county_wide_msw_recycling_rate |-> RecyclingRate(diverted, c.county_wide_msw_landfilled)]

county_summaries(year_df, fields) ==
    LET counties == [j \in 1..Len(fields) |-> CountyTotals(year_df, fields[j])]
        all == WithStatewideRow(counties)
    IN [j \in 1..Len(all) |-> WithCountyRate(all[j])]

(***************************************************************************)
(* summarize.counties                                                      *)
(***************************************************************************)
\* name.replace("__c", "").replace("_", " ")
DisplayName(name) == StrReplace(StrReplace(name, DunderC, <<>>), Underscore, Space)

\* records.df.groupby("Calendar_Year__c").apply(yearly.county_summaries, ...)
CountiesByYear(table, fields) ==
    LET years == CalendarYears(table)
        group(y) == LET rows == county_summaries(YearSlice(table, y), fields)
                    IN [j \in 1..Len(rows) |-> [year |-> y, row |-> rows[j]]]
    IN Flatten([k \in 1..Len(years) |-> group(years[k])])

\* the missing values left in the table
KeepNa(x) == x

\* county_df.fillna(0, inplace=True) on one value
FillNaWithZero(x) == FillNa(x, F(0))

CountyDfRow(year, c) ==
    [name |-> DisplayName(c.name),
     data_year |-> convert_to_int(year),
     county_wide_msw_recycled |-> FillNaWithZero(c.county_wide_msw_recycled),
     county_wide_msw_composted |-> FillNaWithZero(c.county_wide_msw_composted),
     county_wide_msw_digested |-> FillNaWithZero(c.county_wide_msw_digested),
     county_wide_msw_landfilled |-> FillNaWithZero(c.county_wide_msw_landfilled),
     county_wide_msw_diverted_total |-> FillNaWithZero(c.county_wide_msw_diverted_total),
     county_wide_msw_recycling_rate |-> FillNaWithZero(c.county_wide_msw_recycling_rate)]

Counties ==
    /\ pc = "counties"
    /\ county_by_year' = CountiesByYear(df, county_fields)
    /\ county_df' = [j \in 1..Len(county_by_year') |->
                        CountyDfRow(county_by_year'[j].year, county_by_year'[j].row)]
    /\ pc' = "statewide_metrics"
    /\ UNCHANGED <<records, dedup_vars, statewide, facility_metrics, facility_vars>>
    /\ UNCHANGED <<material_vars, validation_vars, mapping_vars, error, rerun_vars, process_vars>>

(***************************************************************************)
(* yearly.statewide_metrics, applied to each data_year of the county table *)
(***************************************************************************)
\* only the Out of State row dropped
DropOutOfStateOnly(county_year_df) ==
    FilterSeq(county_year_df,
              {i \in 1..Len(county_year_df) : county_year_df[i].name # OutOfStateName})

\* county_year_df.drop(index=["Out of State", "Statewide"], errors="ignore")
InStateOnly(county_year_df) ==
    FilterSeq(county_year_df,
              {i \in 1..Len(county_year_df) :
                  county_year_df[i].name \notin {OutOfStateName, StatewideName}})

statewide_metrics(county_year_df) ==
    LET in_state_only == InStateOnly(county_year_df)
        r == FSum(Column(in_state_only, "county_wide_msw_recycled"))
        c == FSum(Column(in_state_only, "county_wide_msw_composted"))
        d == FSum(Column(in_state_only, "county_wide_msw_digested"))
        l == FSum(Column(in_state_only, "county_wide_msw_landfilled"))
        diverted == FAdd(FAdd(r, c), d)
    IN [statewide_msw_recycled |-> r,
        statewide_msw_composted |-> c,
        statewide_msw_digested |-> d,
        statewide_msw_landfilled |-> l,
        statewide_msw_diverted_total |-> diverted,
        statewide_msw_recycling_rate |-> RecyclingRate(diverted, l)]

DataYears(table) == SortedInts({table[i].data_year : i \in 1..Len(table)})

DataYearSlice(table, year) ==
    FilterSeq(table, {i \in 1..Len(table) : table[i].data_year = year})

\* county_df.groupby("data_year").apply(yearly.statewide_metrics)
StatewideMetrics ==
    /\ pc = "statewide_metrics"
    /\ statewide' = LET years == DataYears(county_df)
                    IN [k \in 1..Len(years) |->
                           [data_year |-> years[k],
                            metrics |-> statewide_metrics(DataYearSlice(county_df, years[k]))]]
    /\ pc' = "facility_metrics"
    /\ UNCHANGED <<records, dedup_vars, county_vars, facility_metrics, facility_vars>>
    /\ UNCHANGED <<material_vars, validation_vars, mapping_vars, error, rerun_vars, process_vars>>

(***************************************************************************)
(* yearly.facility_combined_metrics and summarize.facility_metrics         *)
(***************************************************************************)
\* the MSW modifier applied to the landfilled tons as well
FacilityLandfilledWithMsw(r) ==
    FMul(FDiv(r.Municipal_Solid_Waste__c, F(100)), r.Municipal_Waste_In_State_in_Tons__c)

\* stats_df["msw_landfilled"] = year_df["Municipal_Waste_In_State_in_Tons__c"]
FacilityLandfilled(r) == r.Municipal_Waste_In_State_in_Tons__c

FacilityMetric(r) ==
    LET msw_modifier == FDiv(r.Municipal_Solid_Waste__c, F(100))
        recycled == FMul(msw_modifier, r.Combined_Total_of_Material_Recycled__c)
        composted == FMul(msw_modifier, r.Total_Materials_sent_to_composting__c)
        digested == FMul(msw_modifier, r.Total_Material_managed_by_ADC__c)
        landfilled == FacilityLandfilled(r)
        diverted == FAdd(FAdd(recycled, composted), digested)
    IN [id |-> r.facility_id,
        name |-> r.Facility_Name__c,
        msw_recycled |-> recycled,
        msw_composted |-> composted,
        msw_digested |-> digested,
        msw_landfilled |-> landfilled,
        msw_recycling_rate |-> RecyclingRate(diverted, landfilled)]

facility_combined_metrics(year_df) ==
    [i \in 1..Len(year_df) |-> FacilityMetric(year_df[i])]

\* records.df.groupby("Calendar_Year__c").apply(yearly.facility_combined_metrics),
\* the year level turned into the integer column data_year
FacilityMetrics ==
    /\ pc = "facility_metrics"
    /\ facility_metrics' =
          LET years == CalendarYears(df)
              group(y) == LET rows == facility_combined_metrics(YearSlice(df, y))
                          IN [j \in 1..Len(rows) |->
                                 [data_year |-> convert_to_int(y), row |-> rows[j]]]
          IN Flatten([k \in 1..Len(years) |-> group(years[k])])
    /\ pc' = "facilities"
    /\ UNCHANGED <<records, dedup_vars, county_vars, statewide, facility_vars>>
    /\ UNCHANGED <<material_vars, validation_vars, mapping_vars, error, rerun_vars, process_vars>>

(***************************************************************************)
(* yearly.facility_tons_diverted_from_landfills                            *)
(***************************************************************************)
\* (name, id) < (name, id) on the keys of groupby(["Facility_Name__c", "facility_id"])
KeyLess(a, b) == StrLess(a[1], b[1]) \/ (a[1] = b[1] /\ StrLess(a[2], b[2]))

RECURSIVE SortedKeys(_)
SortedKeys(S) ==
    IF S = {} THEN <<>>
    ELSE LET m == CHOOSE x \in S : \A y \in S \ {x} : KeyLess(x, y)
         IN <<m>> \o SortedKeys(S \ {m})

\* facility_id.astype(str).str[3:].str.lstrip("0")
PublishedId(facility_id) == StrLStrip(StrFrom(facility_id, 3), "0")

\* the nine columns of one group, each summed over the rows of the group, then added up
TonsDiverted(rows) ==
    LET sum(field) == FSum(Column(rows, field))
    IN FAdd(FAdd(FAdd(FAdd(FAdd(FAdd(FAdd(FAdd(
           sum("Combined_Total_of_Material_Recycled__c"),
           sum("Total_Materials_recycled__c")),
           sum("Total_Materials_sent_to_composting__c")),
           sum("Combined_Total_Material_for_Compostion__c")),
           sum("Total_Material_managed_by_ADC__c")),
           sum("Combined_Total_Material_for_Combustion__c")),
           sum("Total_Materials_combusted__c")),
           sum("Total_waste_tires_recycled_in_Tons__c")),
           sum("Total_WT_for_combustion_in_Tons__c"))

facility_tons_diverted_from_landfills(year_df) ==
    LET keys == SortedKeys({<<year_df[i].Facility_Name__c, year_df[i].facility_id>> :
                               i \in 1..Len(year_df)})
        rowsOf(key) == FilterSeq(year_df, {i \in 1..Len(year_df) :
                           /\ year_df[i].Facility_Name__c = key[1]
                           /\ year_df[i].facility_id = key[2]})
    IN [k \in 1..Len(keys) |->
           [Facility_Name__c |-> keys[k][1],
            id_ |-> PublishedId(keys[k][2]),
            tons_of_material_diverted_from_ |-> ReplaceZero(TonsDiverted(rowsOf(keys[k]))),
            tons_recycled_at_recycle_fac |->
                ReplaceZero(FSum(Column(rowsOf(keys[k]),
                                        "Combined_Total_of_Material_Recycled__c")))]]

(***************************************************************************)
(* summarize.facilities and summarize._add_facility_info                   *)
(***************************************************************************)
\* records.df.groupby("facility_id")["LastModifiedDate"].idxmax(): per facility, in
\* ascending order of the id, the first row holding its latest LastModifiedDate
LatestRecords(table) ==
    LET ids == SortedStrs({table[i].facility_id : i \in 1..Len(table)})
        mine(f) == {i \in 1..Len(table) : table[i].facility_id = f}
        latest(f) == CHOOSE i \in mine(f) :
                        /\ \A j \in mine(f) :
                              table[j].LastModifiedDate <= table[i].LastModifiedDate
                        /\ \A j \in mine(f) :
                              table[j].LastModifiedDate = table[i].LastModifiedDate => i <= j
    IN [k \in 1..Len(ids) |->
           LET r == table[latest(ids[k])]
           IN [id_ |-> PublishedId(r.facility_id),
               accept_material_dropped_off_by_ |-> r.Are_materials_accepted_for_drop_off__c,
               phone_no_ |-> r.Facility_Phone_Number__c,
               website |-> r.Facility_Website__c,
               facility_name |-> r.Facility_Name__c]]

\* a missing value of a string column
MissingStr == <<"NaN">>

\* facility_df.drop(columns=["Facility_Name__c"]).merge(latest_records, on="id_", how="left")
\* for one row of facility_df
MergeLeft(left, latest_records) ==
    LET matches == FilterSeq(latest_records,
                             {k \in 1..Len(latest_records) : latest_records[k].id_ = left.id_})
        joined(info) ==
            [data_year |-> left.data_year,
             id_ |-> left.id_,
             tons_of_material_diverted_from_ |-> left.tons_of_material_diverted_from_,
             tons_recycled_at_recycle_fac |-> left.tons_recycled_at_recycle_fac,
             accept_material_dropped_off_by_ |-> info.accept_material_dropped_off_by_,
             phone_no_ |-> info.phone_no_,
             website |-> info.website,
             facility_name |-> info.facility_name]
    IN IF matches = <<>>
       THEN <<joined([accept_material_dropped_off_by_ |-> MissingStr,
                      phone_no_ |-> MissingStr, website |-> MissingStr,
                      facility_name |-> MissingStr])>>
       ELSE [k \in 1..Len(matches) |-> joined(matches[k])]

_add_facility_info(facility_df, table) ==
    LET latest_records == LatestRecords(table)
    IN Flatten([j \in 1..Len(facility_df) |-> MergeLeft(facility_df[j], latest_records)])

\* records.df.groupby("Calendar_Year__c").apply(yearly.facility_tons_diverted_from_landfills)
DivertedByYear(table) ==
    LET years == CalendarYears(table)
        group(y) == LET rows == facility_tons_diverted_from_landfills(YearSlice(table, y))
                    IN [j \in 1..Len(rows) |-> [year |-> y, row |-> rows[j]]]
    IN Flatten([k \in 1..Len(years) |-> group(years[k])])

Facilities ==
    /\ pc = "facilities"
    /\ diverted_by_year' = DivertedByYear(df)
    /\ facility_summaries' =
          _add_facility_info(
              [j \in 1..Len(diverted_by_year') |->
                  [data_year |-> convert_to_int(diverted_by_year'[j].year),
                   Facility_Name__c |-> diverted_by_year'[j].row.Facility_Name__c,
                   id_ |-> diverted_by_year'[j].row.id_,
                   tons_of_material_diverted_from_ |->
                       diverted_by_year'[j].row.tons_of_material_diverted_from_,
                   tons_recycled_at_recycle_fac |->
                       diverted_by_year'[j].row.tons_recycled_at_recycle_fac]],
              df)
    /\ pc' = "done"
    /\ UNCHANGED <<records, dedup_vars, county_vars, statewide, facility_metrics>>
    /\ UNCHANGED <<material_vars, validation_vars, mapping_vars, error, rerun_vars, process_vars>>

(***************************************************************************)
(* The summaries of one loaded record table: county summaries, statewide   *)
(* metrics and facility metrics.                                           *)
(***************************************************************************)
foo == <<"f", "o", "o">>

Foo == <<"F", "o", "o">>

\* recycled, composting, AD/C and in-state landfill tons of a record
Tonnages ==
    {<<F(0), F(0), F(0), F(0)>>,
     <<F(10), F(0), F(10), F(80)>>,
     <<F(20), F(50), F(0), F(30)>>}

MswPercents == {F(50), NaN}

Shares(cache, utah, out) ==
    [c \in {Cache_County__c, Utah_County__c, Out_of_State__c} |->
        IF c = Cache_County__c THEN F(cache) ELSE IF c = Utah_County__c THEN F(utah) ELSE F(out)]

CountyShares == {Shares(50, 50, 0), Shares(0, 60, 40)}

CountyFieldLists ==
    {<<Cache_County__c, Utah_County__c>>,
     <<Cache_County__c, Utah_County__c, Out_of_State__c>>}

RecordRow(y, msw, t, shares) ==
    [index |-> 0,
     facility_id |-> SW01,
     Facility_Name__c |-> foo,
     Calendar_Year__c |-> y,
     Municipal_Solid_Waste__c |-> msw,
     Combined_Total_of_Material_Recycled__c |-> t[1],
     Total_Materials_sent_to_composting__c |-> t[2],
     Total_Material_managed_by_ADC__c |-> t[3],
     Municipal_Waste_In_State_in_Tons__c |-> t[4],
     county |-> shares]

RecordRows ==
    {RecordRow(y, msw, t, shares) :
        y \in Years, msw \in MswPercents, t \in Tonnages, shares \in CountyShares}

Init ==
    /\ \E rows \in SeqsUpTo(RecordRows, MaxYearRows) : raw_df = WithRangeIndex(rows)
    /\ df = raw_df
    /\ county_fields \in CountyFieldLists
    /\ pc = "counties"
    /\ NothingComputed
    /\ classification = "" /\ renamed_fields = <<>> /\ total_field = <<>>
    /\ metrics_df = <<>> /\ current_year = 0
    /\ all_columns = {}
    /\ NoRerun /\ NoProcess

Next == Counties \/ StatewideMetrics \/ FacilityMetrics

Spec == Init /\ [][Next]_vars

(***************************************************************************)
(* yearly.statewide_metrics on county tables of any content.               *)
(***************************************************************************)
CountyNames == {DisplayName(Cache_County__c), OutOfStateName, StatewideName}

CountyTonnages ==
    {<<F(0), F(0), F(0), F(0)>>,
     <<F(10), F(0), F(10), F(80)>>,
     <<F(100), F(100), F(100), F(700)>>}

CountyTableRow(name, t, rate) ==
    [name |-> name,
     data_year |-> convert_to_int(Y2022),
     county_wide_msw_recycled |-> t[1],
     county_wide_msw_composted |-> t[2],
     county_wide_msw_digested |-> t[3],
     county_wide_msw_landfilled |-> t[4],
     county_wide_msw_diverted_total |-> FAdd(FAdd(t[1], t[2]), t[3]),
     county_wide_msw_recycling_rate |-> rate]

CountyTableRows ==
    {CountyTableRow(name, t, rate) :
        name \in CountyNames, t \in CountyTonnages, rate \in {F(50)}}

InitStatewide ==
    /\ raw_df = <<>>
    /\ df = <<>>
    /\ county_fields = <<>>
    /\ pc = "statewide_metrics"
    /\ duplicate_ids = NoDuplicates
    /\ dedup_runs = 0
    /\ county_by_year = <<>>
    /\ county_df \in SeqsUpTo(CountyTableRows, MaxCountyRows)
    /\ statewide = <<>>
    /\ facility_metrics = <<>>
    /\ diverted_by_year = <<>>
    /\ facility_summaries = <<>>
    /\ NoMaterials
    /\ NoValidation
    /\ NoMapping
    /\ NoRerun /\ NoProcess
    /\ error = NoError

NextStatewide == StatewideMetrics

SpecStatewide == InitStatewide /\ [][NextStatewide]_vars

(***************************************************************************)
(* The facility summaries of one loaded record table.                      *)
(***************************************************************************)
Facilities_ == {<<foo, SW01>>, <<Foo, SW01>>, <<foo, SW02>>}

\* the nine diverted columns, in the order of the sum, and the landfill column
FacilityTonnages ==
    {<<F(0), F(0), F(0), F(0), F(0), F(0), F(0), F(0), F(0), F(0)>>,
     <<F(10), F(1), F(0), F(2), F(10), F(3), F(4), F(5), F(6), F(80)>>,
     <<F(20), NaN, F(50), F(0), F(0), F(0), F(0), F(0), F(0), F(30)>>}

FacilityRow(y, fac, msw, t) ==
    [index |-> 0,
     facility_id |-> fac[2],
     Facility_Name__c |-> fac[1],
     Calendar_Year__c |-> y,
     LastModifiedDate |-> 20220101,
     Are_materials_accepted_for_drop_off__c |-> <<"Y", "e", "s">>,
     Facility_Phone_Number__c |-> <<"5", "5", "5">>,
     Facility_Website__c |-> <<"f", "o", "o", "_", "c", "o", "m">>,
     Municipal_Solid_Waste__c |-> msw,
     Combined_Total_of_Material_Recycled__c |-> t[1],
     Total_Materials_recycled__c |-> t[2],
     Total_Materials_sent_to_composting__c |-> t[3],
     Combined_Total_Material_for_Compostion__c |-> t[4],
     Total_Material_managed_by_ADC__c |-> t[5],
     Combined_Total_Material_for_Combustion__c |-> t[6],
     Total_Materials_combusted__c |-> t[7],
     Total_waste_tires_recycled_in_Tons__c |-> t[8],
     Total_WT_for_combustion_in_Tons__c |-> t[9],
     Municipal_Waste_In_State_in_Tons__c |-> t[10]]

FacilityRows ==
    {FacilityRow(y, fac, msw, t) :
        y \in Years, fac \in Facilities_, msw \in {F(50), NaN}, t \in FacilityTonnages}

InitFacility ==
    /\ \E rows \in SeqsUpTo(FacilityRows, MaxYearRows) : raw_df = WithRangeIndex(rows)
    /\ df = raw_df
    /\ county_fields = <<>>
    /\ pc = "facility_metrics"
    /\ NothingComputed
    /\ classification = "" /\ renamed_fields = <<>> /\ total_field = <<>>
    /\ metrics_df = <<>> /\ current_year = 0
    /\ all_columns = {}
    /\ NoRerun /\ NoProcess

NextFacility == FacilityMetrics \/ Facilities

SpecFacility == InitFacility /\ [][NextFacility]_vars

(***************************************************************************)
(* yearly.rates_per_material                                               *)
(***************************************************************************)
Municipal_Solid_Waste__c ==
    <<"M", "u", "n", "i", "c", "i", "p", "a", "l", "_", "S", "o", "l", "i", "d", "_", "W",
      "a", "s", "t", "e", "_", "_", "c">>

Combined_Total_of_Material_Received__c ==
    <<"C", "o", "m", "b", "i", "n", "e", "d", "_", "T", "o", "t", "a", "l", "_", "o", "f",
      "_", "M", "a", "t", "e", "r", "i", "a", "l", "_", "R", "e", "c", "e", "i", "v", "e",
      "d", "_", "_", "c">>

Total_Corrugated_Boxes_received__c ==
    <<"T", "o", "t", "a", "l", "_", "C", "o", "r", "r", "u", "g", "a", "t", "e", "d", "_",
      "B", "o", "x", "e", "s", "_", "r", "e", "c", "e", "i", "v", "e", "d", "_", "_", "c">>

Total_Other_CM_received__c ==
    <<"T", "o", "t", "a", "l", "_", "O", "t", "h", "e", "r", "_", "C", "M", "_", "r", "e",
      "c", "e", "i", "v", "e", "d", "_", "_", "c">>

Total_Plastic_Materials_recycled__c ==
    <<"T", "o", "t", "a", "l", "_", "P", "l", "a", "s", "t", "i", "c", "_", "M", "a", "t",
      "e", "r", "i", "a", "l", "s", "_", "r", "e", "c", "y", "c", "l", "e", "d", "_", "_",
      "c">>

\* list.remove(x) with the ValueError of an absent x passed over
ListRemove(list, x) ==
    IF x \notin Range(list) THEN list
    ELSE LET i == CHOOSE k \in 1..Len(list) :
                      list[k] = x /\ \A j \in 1..(k - 1) : list[j] # x
         IN SubSeq(list, 1, i - 1) \o SubSeq(list, i + 1, Len(list))

\* the MSW field moved before the out-of-state field
UpdateFieldsMswFirst(list) ==
    LET msw_last == Append(ListRemove(list, Municipal_Solid_Waste__c), Municipal_Solid_Waste__c)
    IN Append(ListRemove(msw_last, Out_of_State__c), Out_of_State__c)

\* the two modifier fields appended without the removal of earlier occurrences
UpdateFieldsAppending(list) ==
    Append(Append(list, Out_of_State__c), Municipal_Solid_Waste__c)

\* the out-of-state and MSW fields moved or added to the end of the list
_update_fields(list) ==
    LET out_of_state_last == Append(ListRemove(list, Out_of_State__c), Out_of_State__c)
    IN Append(ListRemove(out_of_state_last, Municipal_Solid_Waste__c),
              Municipal_Solid_Waste__c)

Recycling == "Recycling"

NonPermitted == "Recycling Facility Non-Permitted"

Composts == "Composts"

\* recycling without the non-permitted facilities
RecyclingWithoutNonPermitted(c) ==
    IF c = Recycling THEN <<Recycling>> ELSE IF c = Composts THEN <<Composts>> ELSE c

\* a list for the two known classifications, any other value returned as it is
_update_classification(c) ==
    IF c = Recycling THEN <<Recycling, NonPermitted>>
    ELSE IF c = Composts THEN <<Composts>>
    ELSE c

\* year_df[col] of one record
FieldValue(r, col) ==
    IF col = Out_of_State__c THEN r.Out_of_State__c
    ELSE IF col = Municipal_Solid_Waste__c THEN r.Municipal_Solid_Waste__c
    ELSE r.material[col]

\* year_df[year_df["Classifications__c"].isin(classification)][needed_fields]
\* and subset_df.fillna(0, inplace=True)
MaterialSubset(year_df, classes, needed_fields) ==
    LET matching == FilterSeq(year_df, {i \in 1..Len(year_df) :
                                          year_df[i].Classifications__c \in Range(classes)})
    IN [i \in 1..Len(matching) |->
           [col \in Range(needed_fields) |-> FillNa(FieldValue(matching[i], col), F(0))]]

\* the out-of-state modifier left out
MaterialShareOfAllStates(row, col) ==
    FMul(FDiv(row[Municipal_Solid_Waste__c], F(100)), row[col])

\* (100 - Out_of_State__c) / 100 * Municipal_Solid_Waste__c / 100 * col of one row
MaterialShare(row, col) ==
    FMul(FDiv(FMul(FDiv(FSub(F(100), row[Out_of_State__c]), F(100)),
                   row[Municipal_Solid_Waste__c]),
              F(100)),
         row[col])

MaterialAmount(subset_df, col) ==
    FSum([i \in 1..Len(subset_df) |-> MaterialShare(subset_df[i], col)])

\* the percent as a number out of 100
MaterialPercentOf100(amount, total) == FMul(FDiv(amount, total), F(100))

\* sum_df["amount"] / sum_df.loc[total_field, "amount"]
MaterialPercent(amount, total) == FDiv(amount, total)

\* re.search(r"(?<=Total_)(.+)((?=_recei)|((?=_recycled)|(?=Materials_recycled)))", x):
\* the leftmost position that follows "Total_" from which one or more characters can
\* be taken up to a position followed by one of the three endings; as many characters
\* as possible are taken. The match as <<first, last>>, <<>> when there is none.
RegexSearch(x) ==
    LET lookbehind == <<"T", "o", "t", "a", "l", "_">>
        lookaheads == {<<"_", "r", "e", "c", "e", "i">>, <<"_", "r", "e", "c", "y", "c", "l", "e", "d">>,
                       <<"M", "a", "t", "e", "r", "i", "a", "l", "s", "_", "r", "e", "c", "y", "c", "l", "e", "d">>}
        follows(p) == p >= Len(lookbehind) /\ IsPrefixAt(x, lookbehind, p - Len(lookbehind) + 1)
        precedes(e) == \E ahead \in lookaheads : IsPrefixAt(x, ahead, e + 1)
        ends(p) == {e \in (p + 1)..Len(x) : precedes(e)}
        starts == {p \in 0..Len(x) : follows(p) /\ ends(p) # {}}
    IN IF starts = {} THEN <<>>
       ELSE LET p == CHOOSE q \in starts : \A r \in starts : q <= r
                e == CHOOSE q \in ends(p) : \A r \in ends(p) : r <= q
            IN <<p + 1, e>>

\* re.search(regex, x)[0] if re.search(regex, x) else x
RegexMatchOrAll(x) ==
    IF RegexSearch(x) = <<>> THEN x ELSE SubSeq(x, RegexSearch(x)[1], RegexSearch(x)[2])

\* str.removesuffix(suffix)
RemoveSuffix(x, suffix) ==
    IF Len(suffix) > 0 /\ Len(x) >= Len(suffix)
       /\ SubSeq(x, Len(x) - Len(suffix) + 1, Len(x)) = suffix
    THEN SubSeq(x, 1, Len(x) - Len(suffix))
    ELSE x

\* the column name with "__c" removed and underscores as spaces, nothing else done
MaterialNameUnstripped(x) == StrReplace(StrReplace(x, DunderC, <<>>), Underscore, Space)

\* the display name of a material column
MaterialName(x) ==
    LET matched == RegexMatchOrAll(x)
        stripped == RemoveSuffix(matched, <<"_", "M", "a", "t", "e", "r", "i", "a", "l", "s">>)
        no_c == StrReplace(stripped, DunderC, <<>>)
        spaced == StrReplace(no_c, Underscore, Space)
        cm == StrReplace(spaced, <<" ", "C", "M">>,
                         <<" ", "C", "o", "m", "p", "o", "s", "t", "a", "b", "l", "e", " ", "M", "a", "t", "e", "r", "i", "a", "l">>)
        sw == StrReplace(cm, <<"S", "W", " ", "S", "t", "r", "e", "a", "m">>,
                         <<"O", "t", "h", "e", "r", " ", "S", "o", "l", "i", "d", " ", "W", "a", "s", "t", "e", " ", "S", "t", "r", "e", "a", "m", " ", "M", "a", "t", "e", "r", "i", "a", "l", "s">>)
        paper == StrReplace(sw, <<"P", "a", "p", "e", "r">>,
                            <<"P", "a", "p", "e", "r", " ", "a", "n", "d", " ", "P", "a", "p", "e", "r", "b", "o", "a", "r", "d">>)
    IN StrReplace(paper, <<"I", "C", "D">>,
                  <<"I", "n", "d", "u", "s", "t", "r", "i", "a", "l", ",", " ", "C", "o", "m", "m", "e", "r", "c", "i", "a", "l", ",", " ", "a", "n", "d", " ", "D", "e", "m", "o", "l", "i", "t", "i", "o", "n", " ", "M", "a", "t", "e", "r", "i", "a", "l", "s">>)

rates_per_material(year_df, class, list, total) ==
    LET needed_fields == _update_fields(list)
        classes == _update_classification(class)
        subset_df == MaterialSubset(year_df, classes, needed_fields)
        cols == SubSeq(needed_fields, 1, Len(needed_fields) - 2)
        amount(col) == MaterialAmount(subset_df, col)
    IN [k \in 1..Len(cols) |->
           [material |-> MaterialName(cols[k]),
            amount |-> amount(cols[k]),
            percent |-> MaterialPercent(amount(cols[k]), amount(total))]]

\* a call of yearly.rates_per_material on the records of one year; Series.isin
\* raises a TypeError for a classification that was left a string
RatesPerMaterial ==
    /\ pc = "rates_per_material"
    /\ renamed_fields' = _update_fields(renamed_fields)
    /\ IF classification \in {Recycling, Composts}
       THEN /\ material_rates' =
                  rates_per_material(df, classification, renamed_fields, total_field)
            /\ error' = NoError
            /\ pc' = "done"
       ELSE /\ material_rates' = <<>>
            /\ error' = [type |-> "TypeError", args |-> <<classification>>]
            /\ pc' = "failed"
    /\ UNCHANGED <<records, dedup_vars, county_vars, statewide, facility_metrics,
                   facility_vars, classification, total_field, validation_vars,
                   mapping_vars, rerun_vars, process_vars>>

(***************************************************************************)
(* The material rates of the records of one year.                          *)
(***************************************************************************)
MaterialFields ==
    <<Combined_Total_of_Material_Received__c, Total_Corrugated_Boxes_received__c,
      Total_Other_CM_received__c, Total_Plastic_Materials_recycled__c>>

\* the tons of the four material fields of a record
MaterialTonnages == {<<F(10), F(10), F(4), F(1)>>, <<F(0), NaN, F(5), F(0)>>}

\* Out_of_State__c and Municipal_Solid_Waste__c of a record
Modifiers == {<<F(50), F(50)>>, <<NaN, F(100)>>, <<F(0), NaN>>}

Classifications == {Recycling, NonPermitted, Composts, "Landfill"}

MaterialRow(class, modifiers, t) ==
    [index |-> 0,
     Calendar_Year__c |-> Y2022,
     Classifications__c |-> class,
     Out_of_State__c |-> modifiers[1],
     Municipal_Solid_Waste__c |-> modifiers[2],
     material |-> [col \in Range(MaterialFields) |->
                      t[CHOOSE k \in 1..Len(MaterialFields) : MaterialFields[k] = col]]]

MaterialRows ==
    {MaterialRow(class, modifiers, t) :
        class \in Classifications, modifiers \in Modifiers, t \in MaterialTonnages}

\* the classification and the list of fields of a call
MaterialCalls ==
    {<<Recycling, MaterialFields>>,
     <<Composts, <<Combined_Total_of_Material_Received__c, Municipal_Solid_Waste__c,
                   Total_Other_CM_received__c, Out_of_State__c>>>>,
     <<"Landfill", MaterialFields>>}

InitMaterials ==
    /\ \E rows \in SeqsUpTo(MaterialRows, MaxYearRows) : raw_df = WithRangeIndex(rows)
    /\ df = raw_df
    /\ county_fields = <<>>
    /\ pc = "rates_per_material"
    /\ NothingComputed
    /\ \E call \in MaterialCalls : classification = call[1] /\ renamed_fields = call[2]
    /\ total_field = Combined_Total_of_Material_Received__c
    /\ metrics_df = <<>> /\ current_year = 0
    /\ all_columns = {}
    /\ NoRerun /\ NoProcess

NextMaterials == RatesPerMaterial

SpecMaterials == InitMaterials /\ [][NextMaterials]_vars

(***************************************************************************)
(* validate._year_over_year_changes.  metrics_df is a sequence of rows     *)
(* [year, id, values]: `year` and `id` are the two levels of its index and *)
(* `values` holds the metric columns, keyed by column name.  The returned  *)
(* table is [columns, rows], each row being [id, values].                  *)
(***************************************************************************)
msw_recycled == <<"m", "s", "w", "_", "r", "e", "c", "y", "c", "l", "e", "d">>

msw_composted == <<"m", "s", "w", "_", "c", "o", "m", "p", "o", "s", "t", "e", "d">>

\* metrics_df.columns
MetricColumns == <<msw_recycled, msw_composted>>

RECURSIVE IntToStr(_)
\* str(n) of a natural number
IntToStr(n) == IF n < 10 THEN <<Digits[n + 1]>> ELSE IntToStr(n \div 10) \o <<Digits[(n % 10) + 1]>>

\* f"{col}_diff"
DiffColumn(col) == col \o <<"_", "d", "i", "f", "f">>

\* f"{col}_pct_change"
PctChangeColumn(col) == col \o <<"_", "p", "c", "t", "_", "c", "h", "a", "n", "g", "e">>

\* f"{col}_{year}"
YearColumn(col, year) == col \o Underscore \o IntToStr(year)

\* key in metrics_df.index, for a key of the first level
YearInIndex(table, year) == \E i \in 1..Len(table) : table[i].year = year

\* metrics_df.loc[year]: the rows of the year, without the year level
LocYear(table, year) ==
    LET rows == FilterSeq(table, {i \in 1..Len(table) : table[i].year = year})
    IN [i \in 1..Len(rows) |-> [id |-> rows[i].id, values |-> rows[i].values]]

RECURSIVE SortedIds(_)
SortedIds(S) ==
    IF S = {} THEN <<>>
    ELSE LET m == CHOOSE x \in S : \A y \in S \ {x} : StrLess(x, y)
         IN <<m>> \o SortedIds(S \ {m})

\* the operands aligned on the labels they have in common
AlignedIndexCommon(current, previous) ==
    SortedIds({current[i].id : i \in 1..Len(current)}
                  \cap {previous[i].id : i \in 1..Len(previous)})

\* the index of current - previous: the operands are aligned on the union of
\* their indexes, which is sorted unless the two indexes are equal
AlignedIndex(current, previous) ==
    LET cur_ids == [i \in 1..Len(current) |-> current[i].id]
        prev_ids == [i \in 1..Len(previous) |-> previous[i].id]
    IN IF cur_ids = prev_ids THEN cur_ids ELSE SortedIds(Range(cur_ids) \cup Range(prev_ids))

\* frame.reindex(index=...) on one cell: NaN for a label the frame does not have
ValueAt(frame, id, col) ==
    IF \E i \in 1..Len(frame) : frame[i].id = id
    THEN (CHOOSE r \in Range(frame) : r.id = id).values[col]
    ELSE NaN


\* the year before the same year
PreviousYearIsCurrent(year) == year

\* previous_year = current_year - 1
PreviousYear(year) == year - 1

\* the previous value minus the current one
MetricDiffReversed(current_value, previous_value) == FSub(previous_value, current_value)

\* one cell of metrics_df.loc[current_year] - metrics_df.loc[previous_year]
MetricDiff(current_value, previous_value) == FSub(current_value, previous_value)

\* a change from 0 reported as 0
MetricPctChangeZeroSafe(diff, previous_value) ==
    IF IsNum(previous_value) /\ previous_value.n = 0 THEN F(0)
    ELSE FMul(FDiv(diff, previous_value), F(100))

\* one cell of diffs / metrics_df.loc[previous_year] * 100
MetricPctChange(diff, previous_value) == FMul(FDiv(diff, previous_value), F(100))

RECURSIVE Interleave(_)
\* toolz.interleave of lists of equal length
Interleave(lists) ==
    IF lists[1] = <<>> THEN <<>>
    ELSE [i \in 1..Len(lists) |-> lists[i][1]]
         \o Interleave([i \in 1..Len(lists) |-> Tail(lists[i])])

\* the columns of the returned table
ChangeColumns(columns, year) ==
    Interleave(<<[i \in 1..Len(columns) |-> PctChangeColumn(columns[i])],
                 [i \in 1..Len(columns) |-> YearColumn(columns[i], year)],
                 [i \in 1..Len(columns) |-> YearColumn(columns[i], PreviousYear(year))],
                 [i \in 1..Len(columns) |-> DiffColumn(columns[i])]>>)

\* the row of one entity in the returned table
ChangeRow(current, previous, id, columns, year) ==
    LET new_columns == Range(ChangeColumns(columns, year))
        cell(name) ==
            LET col == CHOOSE c \in Range(columns) :
                          name \in {PctChangeColumn(c), YearColumn(c, year),
                                    YearColumn(c, PreviousYear(year)), DiffColumn(c)}
                cur == ValueAt(current, id, col)
                prev == ValueAt(previous, id, col)
                diff == MetricDiff(cur, prev)
            IN CASE name = PctChangeColumn(col) -> MetricPctChange(diff, prev)
                 [] name = YearColumn(col, year) -> cur
                 [] name = YearColumn(col, PreviousYear(year)) -> prev
                 [] name = DiffColumn(col) -> diff
    IN [id |-> id, values |-> [name \in new_columns |-> cell(name)]]

\* the table returned when both years are in the index
_year_over_year_changes(table, columns, year) ==
    LET current == LocYear(table, year)
        previous == LocYear(table, PreviousYear(year))
        index == AlignedIndex(current, previous)
    IN [columns |-> ChangeColumns(columns, year),
        rows |-> [i \in 1..Len(index) |-> ChangeRow(current, previous, index[i], columns, year)]]

\* the message of a ValueError about a year
YearNotFound(which, year) == <<which, IntToStr(year), "not found in index">>

\* one call of validate._year_over_year_changes(metrics_df, current_year)
YearOverYearChanges ==
    /\ pc = "year_over_year_changes"
    /\ IF ~YearInIndex(metrics_df, current_year)
       THEN /\ error' = [type |-> "ValueError", args |-> YearNotFound("Current year", current_year)]
            /\ changes' = <<>>
            /\ pc' = "failed"
       ELSE IF ~YearInIndex(metrics_df, PreviousYear(current_year))
       THEN /\ error' = [type |-> "ValueError",
                         args |-> YearNotFound("Previous year", PreviousYear(current_year))]
            /\ changes' = <<>>
            /\ pc' = "failed"
       ELSE /\ error' = NoError
            /\ changes' = _year_over_year_changes(metrics_df, MetricColumns, current_year)
            /\ pc' = "done"
    /\ UNCHANGED <<records, dedup_vars, county_vars, statewide, facility_metrics, facility_vars,
                   material_vars, metrics_df, current_year, without_null_years, mapping_vars,
                   rerun_vars, process_vars>>

\* 2022 and 2023
MetricYears == {2022, 2023}

\* the values of msw_recycled and msw_composted of one entity in one year
MetricValues == {<<F(1), F(0)>>, <<F(5), F(0)>>, <<F(0), F(2)>>, <<F(0), F(-2)>>}

MetricRow(year, id, v) ==
    [year |-> year, id |-> id, values |-> (msw_recycled :> v[1]) @@ (msw_composted :> v[2])]

\* the (year, entity) pairs of the index
MetricKeys == MetricYears \X FacilityIds

\* the years asked for
CurrentYears == {2023, 2024}

\* a table indexed by year and entity, each pair at most once
InitChanges ==
    /\ raw_df = <<>> /\ df = <<>> /\ county_fields = <<>>
    /\ pc = "year_over_year_changes"
    /\ NothingComputed
    /\ NoMaterials
    /\ \E n \in 0..MaxMetricRows :
          \E keys \in [1..n -> MetricKeys] :
              /\ \A i, j \in 1..n : keys[i] = keys[j] => i = j
              /\ \E values \in [1..n -> MetricValues] :
                    metrics_df = [i \in 1..n |-> MetricRow(keys[i][1], keys[i][2], values[i])]
    /\ current_year \in CurrentYears
    /\ all_columns = {}
    /\ NoRerun /\ NoProcess

NextChanges == YearOverYearChanges

SpecChanges == InitChanges /\ [][NextChanges]_vars

(***************************************************************************)
(* validate.remove_facilities_with_null_years, as the specification and    *)
(* its test describe it.  A row of records_df is [index, facility_id,      *)
(* Calendar_Year__c]; a null year is None.                                 *)
(***************************************************************************)
\* a missing value of a column of strings
None == <<"None">>

\* the rows whose own year is null are dropped, the facility's other rows stay
DropNullYearRows(table) ==
    FilterSeq(table, {i \in 1..Len(table) : table[i].Calendar_Year__c # None})

\* the rows of the facilities that have no row with a null year, index labels kept
RowsWithoutNullYearFacilities(table) ==
    LET null_ids == {table[i].facility_id :
                        i \in {j \in 1..Len(table) : table[j].Calendar_Year__c = None}}
    IN FilterSeq(table, {i \in 1..Len(table) : table[i].facility_id \notin null_ids})

\* one call of validate.remove_facilities_with_null_years(records_df)
RemoveFacilitiesWithNullYears ==
    /\ pc = "remove_facilities_with_null_years"
    /\ without_null_years' = RowsWithoutNullYearFacilities(df)
    /\ error' = NoError
    /\ pc' = "done"
    /\ UNCHANGED <<records, dedup_vars, county_vars, statewide, facility_metrics, facility_vars,
                   material_vars, metrics_df, current_year, changes, mapping_vars,
                   rerun_vars, process_vars>>

\* the rows of records_df the removal looks at
NullYearRows == {[index |-> 0, facility_id |-> id, Calendar_Year__c |-> year] :
                    id \in FacilityIds, year \in Years \cup {None}}

InitNullYears ==
    /\ \E rows \in SeqsUpTo(NullYearRows, MaxRows) : raw_df = WithRangeIndex(rows)
    /\ df = raw_df
    /\ county_fields = <<>>
    /\ pc = "remove_facilities_with_null_years"
    /\ NothingComputed
    /\ NoMaterials
    /\ metrics_df = <<>> /\ current_year = 0
    /\ all_columns = {}
    /\ NoRerun /\ NoProcess

NextNullYears == RemoveFacilitiesWithNullYears

SpecNullYears == InitNullYears /\ [][NextNullYears]_vars

(***************************************************************************)
(* helpers._build_field_mapping.  all_columns is the set of column names   *)
(* of all_columns_df; the mapping is a function from alias to field name.  *)
(***************************************************************************)
\* the names of the manual reports, in the order of the list in the code
Aliases ==
    <<
    \* "Combined Total of Material Recycled"
    <<"C", "o", "m", "b", "i", "n", "e", "d", " ", "T", "o", "t", "a", "l", " ", "o", "f", " ",
      "M", "a", "t", "e", "r", "i", "a", "l", " ", "R", "e", "c", "y", "c", "l", "e", "d">>,
    \* "Municipal Solid Waste"
    <<"M", "u", "n", "i", "c", "i", "p", "a", "l", " ", "S", "o", "l", "i", "d", " ", "W", "a",
      "s", "t", "e">>,
    \* "Total Materials sent to composting"
    <<"T", "o", "t", "a", "l", " ", "M", "a", "t", "e", "r", "i", "a", "l", "s", " ", "s", "e",
      "n", "t", " ", "t", "o", " ", "c", "o", "m", "p", "o", "s", "t", "i", "n", "g">>,
    \* "Total Material managed by AD/C"
    <<"T", "o", "t", "a", "l", " ", "M", "a", "t", "e", "r", "i", "a", "l", " ", "m", "a", "n",
      "a", "g", "e", "d", " ", "b", "y", " ", "A", "D", "/", "C">>,
    \* "Municipal Waste In-State (in Tons)"
    <<"M", "u", "n", "i", "c", "i", "p", "a", "l", " ", "W", "a", "s", "t", "e", " ", "I", "n",
      "-", "S", "t", "a", "t", "e", " ", "(", "i", "n", " ", "T", "o", "n", "s", ")">>,
    \* "Facility Name"
    <<"F", "a", "c", "i", "l", "i", "t", "y", " ", "N", "a", "m", "e">>,
    \* "Solid Waste Facility ID Number"
    <<"S", "o", "l", "i", "d", " ", "W", "a", "s", "t", "e", " ", "F", "a", "c", "i", "l", "i",
      "t", "y", " ", "I", "D", " ", "N", "u", "m", "b", "e", "r">>,
    \* "Combined Total of Material Recycled"
    <<"C", "o", "m", "b", "i", "n", "e", "d", " ", "T", "o", "t", "a", "l", " ", "o", "f", " ",
      "M", "a", "t", "e", "r", "i", "a", "l", " ", "R", "e", "c", "y", "c", "l", "e", "d">>,
    \* "Total Materials recycled"
    <<"T", "o", "t", "a", "l", " ", "M", "a", "t", "e", "r", "i", "a", "l", "s", " ", "r", "e",
      "c", "y", "c", "l", "e", "d">>,
    \* "Total Materials sent to composting"
    <<"T", "o", "t", "a", "l", " ", "M", "a", "t", "e", "r", "i", "a", "l", "s", " ", "s", "e",
      "n", "t", " ", "t", "o", " ", "c", "o", "m", "p", "o", "s", "t", "i", "n", "g">>,
    \* "Combined Total Material for Composting"
    <<"C", "o", "m", "b", "i", "n", "e", "d", " ", "T", "o", "t", "a", "l", " ", "M", "a", "t",
      "e", "r", "i", "a", "l", " ", "f", "o", "r", " ", "C", "o", "m", "p", "o", "s", "t", "i",
      "n", "g">>,
    \* "Total Material managed by AD/C"
    <<"T", "o", "t", "a", "l", " ", "M", "a", "t", "e", "r", "i", "a", "l", " ", "m", "a", "n",
      "a", "g", "e", "d", " ", "b", "y", " ", "A", "D", "/", "C">>,
    \* "Combined Total Material for Combustion"
    <<"C", "o", "m", "b", "i", "n", "e", "d", " ", "T", "o", "t", "a", "l", " ", "M", "a", "t",
      "e", "r", "i", "a", "l", " ", "f", "o", "r", " ", "C", "o", "m", "b", "u", "s", "t", "i",
      "o", "n">>,
    \* "Total Materials combusted"
    <<"T", "o", "t", "a", "l", " ", "M", "a", "t", "e", "r", "i", "a", "l", "s", " ", "c", "o",
      "m", "b", "u", "s", "t", "e", "d">>,
    \* "Total waste tires recycled (in Tons)"
    <<"T", "o", "t", "a", "l", " ", "w", "a", "s", "t", "e", " ", "t", "i", "r", "e", "s", " ",
      "r", "e", "c", "y", "c", "l", "e", "d", " ", "(", "i", "n", " ", "T", "o", "n", "s", ")">>,
    \* "Total WT for combustion (in Tons)"
    <<"T", "o", "t", "a", "l", " ", "W", "T", " ", "f", "o", "r", " ", "c", "o", "m", "b", "u",
      "s", "t", "i", "o", "n", " ", "(", "i", "n", " ", "T", "o", "n", "s", ")">>,
    \* "Combined Total of Material Received"
    <<"C", "o", "m", "b", "i", "n", "e", "d", " ", "T", "o", "t", "a", "l", " ", "o", "f", " ",
      "M", "a", "t", "e", "r", "i", "a", "l", " ", "R", "e", "c", "e", "i", "v", "e", "d">>,
    \* "Total Corrugated Boxes received"
    <<"T", "o", "t", "a", "l", " ", "C", "o", "r", "r", "u", "g", "a", "t", "e", "d", " ", "B",
      "o", "x", "e", "s", " ", "r", "e", "c", "e", "i", "v", "e", "d">>,
    \* "Total Paper and Paperboard received"
    <<"T", "o", "t", "a", "l", " ", "P", "a", "p", "e", "r", " ", "a", "n", "d", " ", "P", "a",
      "p", "e", "r", "b", "o", "a", "r", "d", " ", "r", "e", "c", "e", "i", "v", "e", "d">>,
    \* "Total Plastic Materials received"
    <<"T", "o", "t", "a", "l", " ", "P", "l", "a", "s", "t", "i", "c", " ", "M", "a", "t", "e",
      "r", "i", "a", "l", "s", " ", "r", "e", "c", "e", "i", "v", "e", "d">>,
    \* "Total Glass Materials received"
    <<"T", "o", "t", "a", "l", " ", "G", "l", "a", "s", "s", " ", "M", "a", "t", "e", "r", "i",
      "a", "l", "s", " ", "r", "e", "c", "e", "i", "v", "e", "d">>,
    \* "Total Ferrous Metal Materials received"
    <<"T", "o", "t", "a", "l", " ", "F", "e", "r", "r", "o", "u", "s", " ", "M", "e", "t", "a",
      "l", " ", "M", "a", "t", "e", "r", "i", "a", "l", "s", " ", "r", "e", "c", "e", "i", "v",
      "e", "d">>,
    \* "Total Aluminum Metal Materials received"
    <<"T", "o", "t", "a", "l", " ", "A", "l", "u", "m", "i", "n", "u", "m", " ", "M", "e", "t",
      "a", "l", " ", "M", "a", "t", "e", "r", "i", "a", "l", "s", " ", "r", "e", "c", "e", "i",
      "v", "e", "d">>,
    \* "Total Nonferrous Metal received"
    <<"T", "o", "t", "a", "l", " ", "N", "o", "n", "f", "e", "r", "r", "o", "u", "s", " ", "M",
      "e", "t", "a", "l", " ", "r", "e", "c", "e", "i", "v", "e", "d">>,
    \* "Total Rubber Materials received"
    <<"T", "o", "t", "a", "l", " ", "R", "u", "b", "b", "e", "r", " ", "M", "a", "t", "e", "r",
      "i", "a", "l", "s", " ", "r", "e", "c", "e", "i", "v", "e", "d">>,
    \* "Total Leather Materials received"
    <<"T", "o", "t", "a", "l", " ", "L", "e", "a", "t", "h", "e", "r", " ", "M", "a", "t", "e",
      "r", "i", "a", "l", "s", " ", "r", "e", "c", "e", "i", "v", "e", "d">>,
    \* "Total Textile Materials received"
    <<"T", "o", "t", "a", "l", " ", "T", "e", "x", "t", "i", "l", "e", " ", "M", "a", "t", "e",
      "r", "i", "a", "l", "s", " ", "r", "e", "c", "e", "i", "v", "e", "d">>,
    \* "Total Wood Materials received"
    <<"T", "o", "t", "a", "l", " ", "W", "o", "o", "d", " ", "M", "a", "t", "e", "r", "i", "a",
      "l", "s", " ", "r", "e", "c", "e", "i", "v", "e", "d">>,
    \* "Total Yard Trimmings received"
    <<"T", "o", "t", "a", "l", " ", "Y", "a", "r", "d", " ", "T", "r", "i", "m", "m", "i", "n",
      "g", "s", " ", "r", "e", "c", "e", "i", "v", "e", "d">>,
    \* "Total Food received"
    <<"T", "o", "t", "a", "l", " ", "F", "o", "o", "d", " ", "r", "e", "c", "e", "i", "v", "e",
      "d">>,
    \* "Total Tires received"
    <<"T", "o", "t", "a", "l", " ", "T", "i", "r", "e", "s", " ", "r", "e", "c", "e", "i", "v",
      "e", "d">>,
    \* "Total Lead-Acid Batteries received"
    <<"T", "o", "t", "a", "l", " ", "L", "e", "a", "d", "-", "A", "c", "i", "d", " ", "B", "a",
      "t", "t", "e", "r", "i", "e", "s", " ", "r", "e", "c", "e", "i", "v", "e", "d">>,
    \* "Total Lithium-Ion Batteries received"
    <<"T", "o", "t", "a", "l", " ", "L", "i", "t", "h", "i", "u", "m", "-", "I", "o", "n", " ",
      "B", "a", "t", "t", "e", "r", "i", "e", "s", " ", "r", "e", "c", "e", "i", "v", "e", "d">>,
    \* "Total Other Electronics received"
    <<"T", "o", "t", "a", "l", " ", "O", "t", "h", "e", "r", " ", "E", "l", "e", "c", "t", "r",
      "o", "n", "i", "c", "s", " ", "r", "e", "c", "e", "i", "v", "e", "d">>,
    \* "Total ICD received"
    <<"T", "o", "t", "a", "l", " ", "I", "C", "D", " ", "r", "e", "c", "e", "i", "v", "e", "d">>,
    \* "Total SW Stream Materials received"
    <<"T", "o", "t", "a", "l", " ", "S", "W", " ", "S", "t", "r", "e", "a", "m", " ", "M", "a",
      "t", "e", "r", "i", "a", "l", "s", " ", "r", "e", "c", "e", "i", "v", "e", "d">>,
    \* "Municipal Solid Waste"
    <<"M", "u", "n", "i", "c", "i", "p", "a", "l", " ", "S", "o", "l", "i", "d", " ", "W", "a",
      "s", "t", "e">>,
    \* "Total Material Received Compost"
    <<"T", "o", "t", "a", "l", " ", "M", "a", "t", "e", "r", "i", "a", "l", " ", "R", "e", "c",
      "e", "i", "v", "e", "d", " ", "C", "o", "m", "p", "o", "s", "t">>,
    \* "Total Paper and Paperboard receiced (C)"
    <<"T", "o", "t", "a", "l", " ", "P", "a", "p", "e", "r", " ", "a", "n", "d", " ", "P", "a",
      "p", "e", "r", "b", "o", "a", "r", "d", " ", "r", "e", "c", "e", "i", "c", "e", "d", " ",
      "(", "C", ")">>,
    \* "Total Plastic Materials received (C)"
    <<"T", "o", "t", "a", "l", " ", "P", "l", "a", "s", "t", "i", "c", " ", "M", "a", "t", "e",
      "r", "i", "a", "l", "s", " ", "r", "e", "c", "e", "i", "v", "e", "d", " ", "(", "C", ")">>,
    \* "Total Rubber Materials received (C)"
    <<"T", "o", "t", "a", "l", " ", "R", "u", "b", "b", "e", "r", " ", "M", "a", "t", "e", "r",
      "i", "a", "l", "s", " ", "r", "e", "c", "e", "i", "v", "e", "d", " ", "(", "C", ")">>,
    \* "Total Leather Materials received (C)"
    <<"T", "o", "t", "a", "l", " ", "L", "e", "a", "t", "h", "e", "r", " ", "M", "a", "t", "e",
      "r", "i", "a", "l", "s", " ", "r", "e", "c", "e", "i", "v", "e", "d", " ", "(", "C", ")">>,
    \* "Total Textile Materials received (C)"
    <<"T", "o", "t", "a", "l", " ", "T", "e", "x", "t", "i", "l", "e", " ", "M", "a", "t", "e",
      "r", "i", "a", "l", "s", " ", "r", "e", "c", "e", "i", "v", "e", "d", " ", "(", "C", ")">>,
    \* "Total Wood Materials received (C)"
    <<"T", "o", "t", "a", "l", " ", "W", "o", "o", "d", " ", "M", "a", "t", "e", "r", "i", "a",
      "l", "s", " ", "r", "e", "c", "e", "i", "v", "e", "d", " ", "(", "C", ")">>,
    \* "Total Yard Trimmings received (C)"
    <<"T", "o", "t", "a", "l", " ", "Y", "a", "r", "d", " ", "T", "r", "i", "m", "m", "i", "n",
      "g", "s", " ", "r", "e", "c", "e", "i", "v", "e", "d", " ", "(", "C", ")">>,
    \* "Total Food received (C)"
    <<"T", "o", "t", "a", "l", " ", "F", "o", "o", "d", " ", "r", "e", "c", "e", "i", "v", "e",
      "d", " ", "(", "C", ")">>,
    \* "Total Agricultural Organics received"
    <<"T", "o", "t", "a", "l", " ", "A", "g", "r", "i", "c", "u", "l", "t", "u", "r", "a", "l",
      " ", "O", "r", "g", "a", "n", "i", "c", "s", " ", "r", "e", "c", "e", "i", "v", "e", "d">>,
    \* "Total BFS received"
    <<"T", "o", "t", "a", "l", " ", "B", "F", "S", " ", "r", "e", "c", "e", "i", "v", "e", "d">>,
    \* "Total Drywall received"
    <<"T", "o", "t", "a", "l", " ", "D", "r", "y", "w", "a", "l", "l", " ", "r", "e", "c", "e",
      "i", "v", "e", "d">>,
    \* "Total Other CM received"
    <<"T", "o", "t", "a", "l", " ", "O", "t", "h", "e", "r", " ", "C", "M", " ", "r", "e", "c",
      "e", "i", "v", "e", "d">>,
    \* "Calendar Year"
    <<"C", "a", "l", "e", "n", "d", "a", "r", " ", "Y", "e", "a", "r">>
    >>

\* f'{alias.replace(" ", "_").replace("(", "").replace(")", "").replace("-", "_").replace("/", "")}__c'
FieldName(alias) ==
    StrReplace(StrReplace(StrReplace(StrReplace(StrReplace(alias, Space, Underscore),
                                                <<"(">>, <<>>),
                                     <<")">>, <<>>),
                          <<"-">>, Underscore),
               <<"/">>, <<>>) \o DunderC

\* only the first alias without a column is kept
KeepFirstMissing(missing_fields, alias) ==
    IF missing_fields = <<>> THEN <<alias>> ELSE missing_fields

\* missing_fields.append(alias)
AppendMissing(missing_fields, alias) == Append(missing_fields, alias)

\* field_name of each alias of the list
FieldNames == [i \in 1..Len(Aliases) |-> FieldName(Aliases[i])]

RECURSIVE MappingLoop(_, _, _, _)
\* the loop over the aliases from the i-th on, from the state (mapping, missing_fields)
MappingLoop(i, columns, mapping, missing_fields) ==
    IF i > Len(Aliases) THEN [field_mapping |-> mapping, missing_fields |-> missing_fields]
    ELSE IF Aliases[i] \in DOMAIN mapping
    THEN MappingLoop(i + 1, columns, mapping, missing_fields)
    ELSE IF FieldNames[i] \notin columns
    THEN MappingLoop(i + 1, columns, mapping, AppendMissing(missing_fields, Aliases[i]))
    ELSE MappingLoop(i + 1, columns, mapping @@ (Aliases[i] :> FieldNames[i]), missing_fields)

\* one call of helpers._build_field_mapping(all_columns_df)
BuildFieldMapping ==
    /\ pc = "_build_field_mapping"
    /\ LET result == MappingLoop(1, all_columns, <<>>, <<>>)
       IN IF result.missing_fields # <<>>
          THEN /\ error' = [type |-> "ValueError",
                            args |-> <<"Missing fields: ", result.missing_fields>>]
               /\ field_mapping' = <<>>
               /\ pc' = "failed"
          ELSE /\ error' = NoError
               /\ field_mapping' = result.field_mapping
               /\ pc' = "done"
    /\ UNCHANGED <<records, dedup_vars, county_vars, statewide, facility_metrics, facility_vars,
                   material_vars, validation_vars, all_columns,
                   rerun_vars, process_vars>>

\* the Salesforce field of each alias, in the order of Aliases
SalesforceFields ==
    <<
    \* "Combined_Total_of_Material_Recycled__c"
    <<"C", "o", "m", "b", "i", "n", "e", "d", "_", "T", "o", "t", "a", "l", "_", "o", "f", "_",
      "M", "a", "t", "e", "r", "i", "a", "l", "_", "R", "e", "c", "y", "c", "l", "e", "d", "_",
      "_", "c">>,
    \* "Municipal_Solid_Waste__c"
    <<"M", "u", "n", "i", "c", "i", "p", "a", "l", "_", "S", "o", "l", "i", "d", "_", "W", "a",
      "s", "t", "e", "_", "_", "c">>,
    \* "Total_Materials_sent_to_composting__c"
    <<"T", "o", "t", "a", "l", "_", "M", "a", "t", "e", "r", "i", "a", "l", "s", "_", "s", "e",
      "n", "t", "_", "t", "o", "_", "c", "o", "m", "p", "o", "s", "t", "i", "n", "g", "_", "_",
      "c">>,
    \* "Total_Material_managed_by_ADC__c"
    <<"T", "o", "t", "a", "l", "_", "M", "a", "t", "e", "r", "i", "a", "l", "_", "m", "a", "n",
      "a", "g", "e", "d", "_", "b", "y", "_", "A", "D", "C", "_", "_", "c">>,
    \* "Municipal_Waste_In_State_in_Tons__c"
    <<"M", "u", "n", "i", "c", "i", "p", "a", "l", "_", "W", "a", "s", "t", "e", "_", "I", "n",
      "_", "S", "t", "a", "t", "e", "_", "i", "n", "_", "T", "o", "n", "s", "_", "_", "c">>,
    \* "Facility_Name__c"
    <<"F", "a", "c", "i", "l", "i", "t", "y", "_", "N", "a", "m", "e", "_", "_", "c">>,
    \* "Solid_Waste_Facility_ID_Number__c"
    <<"S", "o", "l", "i", "d", "_", "W", "a", "s", "t", "e", "_", "F", "a", "c", "i", "l", "i",
      "t", "y", "_", "I", "D", "_", "N", "u", "m", "b", "e", "r", "_", "_", "c">>,
    \* "Combined_Total_of_Material_Recycled__c"
    <<"C", "o", "m", "b", "i", "n", "e", "d", "_", "T", "o", "t", "a", "l", "_", "o", "f", "_",
      "M", "a", "t", "e", "r", "i", "a", "l", "_", "R", "e", "c", "y", "c", "l", "e", "d", "_",
      "_", "c">>,
    \* "Total_Materials_recycled__c"
    <<"T", "o", "t", "a", "l", "_", "M", "a", "t", "e", "r", "i", "a", "l", "s", "_", "r", "e",
      "c", "y", "c", "l", "e", "d", "_", "_", "c">>,
    \* "Total_Materials_sent_to_composting__c"
    <<"T", "o", "t", "a", "l", "_", "M", "a", "t", "e", "r", "i", "a", "l", "s", "_", "s", "e",
      "n", "t", "_", "t", "o", "_", "c", "o", "m", "p", "o", "s", "t", "i", "n", "g", "_", "_",
      "c">>,
    \* "Combined_Total_Material_for_Composting__c"
    <<"C", "o", "m", "b", "i", "n", "e", "d", "_", "T", "o", "t", "a", "l", "_", "M", "a", "t",
      "e", "r", "i", "a", "l", "_", "f", "o", "r", "_", "C", "o", "m", "p", "o", "s", "t", "i",
      "n", "g", "_", "_", "c">>,
    \* "Total_Material_managed_by_ADC__c"
    <<"T", "o", "t", "a", "l", "_", "M", "a", "t", "e", "r", "i", "a", "l", "_", "m", "a", "n",
      "a", "g", "e", "d", "_", "b", "y", "_", "A", "D", "C", "_", "_", "c">>,
    \* "Combined_Total_Material_for_Combustion__c"
    <<"C", "o", "m", "b", "i", "n", "e", "d", "_", "T", "o", "t", "a", "l", "_", "M", "a", "t",
      "e", "r", "i", "a", "l", "_", "f", "o", "r", "_", "C", "o", "m", "b", "u", "s", "t", "i",
      "o", "n", "_", "_", "c">>,
    \* "Total_Materials_combusted__c"
    <<"T", "o", "t", "a", "l", "_", "M", "a", "t", "e", "r", "i", "a", "l", "s", "_", "c", "o",
      "m", "b", "u", "s", "t", "e", "d", "_", "_", "c">>,
    \* "Total_waste_tires_recycled_in_Tons__c"
    <<"T", "o", "t", "a", "l", "_", "w", "a", "s", "t", "e", "_", "t", "i", "r", "e", "s", "_",
      "r", "e", "c", "y", "c", "l", "e", "d", "_", "i", "n", "_", "T", "o", "n", "s", "_", "_",
      "c">>,
    \* "Total_WT_for_combustion_in_Tons__c"
    <<"T", "o", "t", "a", "l", "_", "W", "T", "_", "f", "o", "r", "_", "c", "o", "m", "b", "u",
      "s", "t", "i", "o", "n", "_", "i", "n", "_", "T", "o", "n", "s", "_", "_", "c">>,
    \* "Combined_Total_of_Material_Received__c"
    <<"C", "o", "m", "b", "i", "n", "e", "d", "_", "T", "o", "t", "a", "l", "_", "o", "f", "_",
      "M", "a", "t", "e", "r", "i", "a", "l", "_", "R", "e", "c", "e", "i", "v", "e", "d", "_",
      "_", "c">>,
    \* "Total_Corrugated_Boxes_received__c"
    <<"T", "o", "t", "a", "l", "_", "C", "o", "r", "r", "u", "g", "a", "t", "e", "d", "_", "B",
      "o", "x", "e", "s", "_", "r", "e", "c", "e", "i", "v", "e", "d", "_", "_", "c">>,
    \* "Total_Paper_and_Paperboard_received__c"
    <<"T", "o", "t", "a", "l", "_", "P", "a", "p", "e", "r", "_", "a", "n", "d", "_", "P", "a",
      "p", "e", "r", "b", "o", "a", "r", "d", "_", "r", "e", "c", "e", "i", "v", "e", "d", "_",
      "_", "c">>,
    \* "Total_Plastic_Materials_received__c"
    <<"T", "o", "t", "a", "l", "_", "P", "l", "a", "s", "t", "i", "c", "_", "M", "a", "t", "e",
      "r", "i", "a", "l", "s", "_", "r", "e", "c", "e", "i", "v", "e", "d", "_", "_", "c">>,
    \* "Total_Glass_Materials_received__c"
    <<"T", "o", "t", "a", "l", "_", "G", "l", "a", "s", "s", "_", "M", "a", "t", "e", "r", "i",
      "a", "l", "s", "_", "r", "e", "c", "e", "i", "v", "e", "d", "_", "_", "c">>,
    \* "Total_Ferrous_Metal_Materials_received__c"
    <<"T", "o", "t", "a", "l", "_", "F", "e", "r", "r", "o", "u", "s", "_", "M", "e", "t", "a",
      "l", "_", "M", "a", "t", "e", "r", "i", "a", "l", "s", "_", "r", "e", "c", "e", "i", "v",
      "e", "d", "_", "_", "c">>,
    \* "Total_Aluminum_Metal_Materials_received__c"
    <<"T", "o", "t", "a", "l", "_", "A", "l", "u", "m", "i", "n", "u", "m", "_", "M", "e", "t",
      "a", "l", "_", "M", "a", "t", "e", "r", "i", "a", "l", "s", "_", "r", "e", "c", "e", "i",
      "v", "e", "d", "_", "_", "c">>,
    \* "Total_Nonferrous_Metal_received__c"
    <<"T", "o", "t", "a", "l", "_", "N", "o", "n", "f", "e", "r", "r", "o", "u", "s", "_", "M",
      "e", "t", "a", "l", "_", "r", "e", "c", "e", "i", "v", "e", "d", "_", "_", "c">>,
    \* "Total_Rubber_Materials_received__c"
    <<"T", "o", "t", "a", "l", "_", "R", "u", "b", "b", "e", "r", "_", "M", "a", "t", "e", "r",
      "i", "a", "l", "s", "_", "r", "e", "c", "e", "i", "v", "e", "d", "_", "_", "c">>,
    \* "Total_Leather_Materials_received__c"
    <<"T", "o", "t", "a", "l", "_", "L", "e", "a", "t", "h", "e", "r", "_", "M", "a", "t", "e",
      "r", "i", "a", "l", "s", "_", "r", "e", "c", "e", "i", "v", "e", "d", "_", "_", "c">>,
    \* "Total_Textile_Materials_received__c"
    <<"T", "o", "t", "a", "l", "_", "T", "e", "x", "t", "i", "l", "e", "_", "M", "a", "t", "e",
      "r", "i", "a", "l", "s", "_", "r", "e", "c", "e", "i", "v", "e", "d", "_", "_", "c">>,
    \* "Total_Wood_Materials_received__c"
    <<"T", "o", "t", "a", "l", "_", "W", "o", "o", "d", "_", "M", "a", "t", "e", "r", "i", "a",
      "l", "s", "_", "r", "e", "c", "e", "i", "v", "e", "d", "_", "_", "c">>,
    \* "Total_Yard_Trimmings_received__c"
    <<"T", "o", "t", "a", "l", "_", "Y", "a", "r", "d", "_", "T", "r", "i", "m", "m", "i", "n",
      "g", "s", "_", "r", "e", "c", "e", "i", "v", "e", "d", "_", "_", "c">>,
    \* "Total_Food_received__c"
    <<"T", "o", "t", "a", "l", "_", "F", "o", "o", "d", "_", "r", "e", "c", "e", "i", "v", "e",
      "d", "_", "_", "c">>,
    \* "Total_Tires_received__c"
    <<"T", "o", "t", "a", "l", "_", "T", "i", "r", "e", "s", "_", "r", "e", "c", "e", "i", "v",
      "e", "d", "_", "_", "c">>,
    \* "Total_Lead_Acid_Batteries_received__c"
    <<"T", "o", "t", "a", "l", "_", "L", "e", "a", "d", "_", "A", "c", "i", "d", "_", "B", "a",
      "t", "t", "e", "r", "i", "e", "s", "_", "r", "e", "c", "e", "i", "v", "e", "d", "_", "_",
      "c">>,
    \* "Total_Lithium_Ion_Batteries_received__c"
    <<"T", "o", "t", "a", "l", "_", "L", "i", "t", "h", "i", "u", "m", "_", "I", "o", "n", "_",
      "B", "a", "t", "t", "e", "r", "i", "e", "s", "_", "r", "e", "c", "e", "i", "v", "e", "d",
      "_", "_", "c">>,
    \* "Total_Other_Electronics_received__c"
    <<"T", "o", "t", "a", "l", "_", "O", "t", "h", "e", "r", "_", "E", "l", "e", "c", "t", "r",
      "o", "n", "i", "c", "s", "_", "r", "e", "c", "e", "i", "v", "e", "d", "_", "_", "c">>,
    \* "Total_ICD_received__c"
    <<"T", "o", "t", "a", "l", "_", "I", "C", "D", "_", "r", "e", "c", "e", "i", "v", "e", "d",
      "_", "_", "c">>,
    \* "Total_SW_Stream_Materials_received__c"
    <<"T", "o", "t", "a", "l", "_", "S", "W", "_", "S", "t", "r", "e", "a", "m", "_", "M", "a",
      "t", "e", "r", "i", "a", "l", "s", "_", "r", "e", "c", "e", "i", "v", "e", "d", "_", "_",
      "c">>,
    \* "Municipal_Solid_Waste__c"
    <<"M", "u", "n", "i", "c", "i", "p", "a", "l", "_", "S", "o", "l", "i", "d", "_", "W", "a",
      "s", "t", "e", "_", "_", "c">>,
    \* "Total_Material_Received_Compost__c"
    <<"T", "o", "t", "a", "l", "_", "M", "a", "t", "e", "r", "i", "a", "l", "_", "R", "e", "c",
      "e", "i", "v", "e", "d", "_", "C", "o", "m", "p", "o", "s", "t", "_", "_", "c">>,
    \* "Total_Paper_and_Paperboard_receiced_C__c"
    <<"T", "o", "t", "a", "l", "_", "P", "a", "p", "e", "r", "_", "a", "n", "d", "_", "P", "a",
      "p", "e", "r", "b", "o", "a", "r", "d", "_", "r", "e", "c", "e", "i", "c", "e", "d", "_",
      "C", "_", "_", "c">>,
    \* "Total_Plastic_Materials_received_C__c"
    <<"T", "o", "t", "a", "l", "_", "P", "l", "a", "s", "t", "i", "c", "_", "M", "a", "t", "e",
      "r", "i", "a", "l", "s", "_", "r", "e", "c", "e", "i", "v", "e", "d", "_", "C", "_", "_",
      "c">>,
    \* "Total_Rubber_Materials_received_C__c"
    <<"T", "o", "t", "a", "l", "_", "R", "u", "b", "b", "e", "r", "_", "M", "a", "t", "e", "r",
      "i", "a", "l", "s", "_", "r", "e", "c", "e", "i", "v", "e", "d", "_", "C", "_", "_", "c">>,
    \* "Total_Leather_Materials_received_C__c"
    <<"T", "o", "t", "a", "l", "_", "L", "e", "a", "t", "h", "e", "r", "_", "M", "a", "t", "e",
      "r", "i", "a", "l", "s", "_", "r", "e", "c", "e", "i", "v", "e", "d", "_", "C", "_", "_",
      "c">>,
    \* "Total_Textile_Materials_received_C__c"
    <<"T", "o", "t", "a", "l", "_", "T", "e", "x", "t", "i", "l", "e", "_", "M", "a", "t", "e",
      "r", "i", "a", "l", "s", "_", "r", "e", "c", "e", "i", "v", "e", "d", "_", "C", "_", "_",
      "c">>,
    \* "Total_Wood_Materials_received_C__c"
    <<"T", "o", "t", "a", "l", "_", "W", "o", "o", "d", "_", "M", "a", "t", "e", "r", "i", "a",
      "l", "s", "_", "r", "e", "c", "e", "i", "v", "e", "d", "_", "C", "_", "_", "c">>,
    \* "Total_Yard_Trimmings_received_C__c"
    <<"T", "o", "t", "a", "l", "_", "Y", "a", "r", "d", "_", "T", "r", "i", "m", "m", "i", "n",
      "g", "s", "_", "r", "e", "c", "e", "i", "v", "e", "d", "_", "C", "_", "_", "c">>,
    \* "Total_Food_received_C__c"
    <<"T", "o", "t", "a", "l", "_", "F", "o", "o", "d", "_", "r", "e", "c", "e", "i", "v", "e",
      "d", "_", "C", "_", "_", "c">>,
    \* "Total_Agricultural_Organics_received__c"
    <<"T", "o", "t", "a", "l", "_", "A", "g", "r", "i", "c", "u", "l", "t", "u", "r", "a", "l",
      "_", "O", "r", "g", "a", "n", "i", "c", "s", "_", "r", "e", "c", "e", "i", "v", "e", "d",
      "_", "_", "c">>,
    \* "Total_BFS_received__c"
    <<"T", "o", "t", "a", "l", "_", "B", "F", "S", "_", "r", "e", "c", "e", "i", "v", "e", "d",
      "_", "_", "c">>,
    \* "Total_Drywall_received__c"
    <<"T", "o", "t", "a", "l", "_", "D", "r", "y", "w", "a", "l", "l", "_", "r", "e", "c", "e",
      "i", "v", "e", "d", "_", "_", "c">>,
    \* "Total_Other_CM_received__c"
    <<"T", "o", "t", "a", "l", "_", "O", "t", "h", "e", "r", "_", "C", "M", "_", "r", "e", "c",
      "e", "i", "v", "e", "d", "_", "_", "c">>,
    \* "Calendar_Year__c"
    <<"C", "a", "l", "e", "n", "d", "a", "r", "_", "Y", "e", "a", "r", "_", "_", "c">>
    >>

\* "Combined_Total_Material_for_Compostion__c"
Combined_Total_Material_for_Compostion__c ==
    <<"C", "o", "m", "b", "i", "n", "e", "d", "_", "T", "o", "t", "a", "l", "_", "M", "a", "t",
      "e", "r", "i", "a", "l", "_", "f", "o", "r", "_", "C", "o", "m", "p", "o", "s", "t", "i",
      "o", "n", "_", "_", "c">>

\* columns of the report object that no alias stands for
OtherColumns == {Cache_County__c, Utah_County__c, Out_of_State__c,
                 Combined_Total_Material_for_Compostion__c}

\* the places in Aliases of the fields a schema may lack: "Municipal Solid
\* Waste" (listed twice), "Total Material managed by AD/C" (listed twice),
\* "Facility Name", "Total WT for combustion (in Tons)", "Total Lead-Acid
\* Batteries received", "Total Paper and Paperboard receiced (C)", "Calendar Year"
MaybeAbsent == {2, 4, 6, 16, 32, 39, 51}

InitMapping ==
    /\ raw_df = <<>> /\ df = <<>> /\ county_fields = <<>>
    /\ pc = "_build_field_mapping"
    /\ NothingComputed
    /\ NoMaterials
    /\ metrics_df = <<>> /\ current_year = 0
    /\ NoRerun /\ NoProcess
    /\ \E absent \in SUBSET MaybeAbsent :
          all_columns = (Range(SalesforceFields) \ {SalesforceFields[i] : i \in absent})
                           \cup OtherColumns

NextMapping == BuildFieldMapping

SpecMapping == InitMapping /\ [][NextMapping]_vars

(***************************************************************************)
(* summarize.recovery_rates_by_tonnage and the older                       *)
(* Skid._contamination_rates_by_tonnage.  Both write their intermediate    *)
(* columns into records.df and return one rate per calendar year.          *)
(***************************************************************************)
\* records.df with the five columns the function assigns
WithRecoveryColumns(table) ==
    [i \in 1..Len(table) |->
        LET r == table[i]
            in_state_modifier == FDiv(FSub(F(100), r.Out_of_State__c), F(100))
            msw_modifier == FDiv(r.Municipal_Solid_Waste__c, F(100))
            recovery_rate ==
                FDiv(FSub(F(100), r.Annual_Recycling_Contamination_Rate__c), F(100))
            in_state_msw_recycled ==
                FMul(FMul(r.Combined_Total_of_Material_Recycled__c, in_state_modifier),
                     msw_modifier)
        IN [index |-> r.index,
            Calendar_Year__c |-> r.Calendar_Year__c,
            Out_of_State__c |-> r.Out_of_State__c,
            Municipal_Solid_Waste__c |-> r.Municipal_Solid_Waste__c,
            Annual_Recycling_Contamination_Rate__c |-> r.Annual_Recycling_Contamination_Rate__c,
            Combined_Total_of_Material_Recycled__c |-> r.Combined_Total_of_Material_Recycled__c,
            in_state_modifier |-> in_state_modifier,
            msw_modifier |-> msw_modifier,
            recovery_rate |-> recovery_rate,
            in_state_msw_recycled |-> in_state_msw_recycled,
            in_state_msw_received_for_recycling |-> FDiv(in_state_msw_recycled, recovery_rate)]]

\* clean_rates.replace([np.inf, -np.inf], np.nan) on one value
InfToNaN(x) == IF x.k = "inf" THEN NaN ELSE x

\* the series returned: one [data_year, rate] per calendar year, years ascending
recovery_rates_by_tonnage(table) ==
    LET with_columns == WithRecoveryColumns(table)
        years == CalendarYears(with_columns)
        rate(y) ==
            LET year_df == YearSlice(with_columns, y)
            IN FMul(FDiv(FSum(Column(year_df, "in_state_msw_recycled")),
                         FSum(Column(year_df, "in_state_msw_received_for_recycling"))),
                    F(100))
    IN [k \in 1..Len(years) |->
           [data_year |-> convert_to_int(years[k]), rate |-> InfToNaN(rate(years[k]))]]

\* one call of summarize.recovery_rates_by_tonnage(records)
RecoveryRatesByTonnage ==
    /\ pc = "recovery_rates_by_tonnage"
    /\ df' = WithRecoveryColumns(df)
    /\ recovery_rates' = recovery_rates_by_tonnage(df)
    /\ pc' = "done"
    /\ UNCHANGED <<raw_df, county_fields, dedup_vars, county_vars, statewide, facility_metrics,
                   facility_vars, material_vars, validation_vars, mapping_vars, error,
                   first_run, given_fields, process_vars>>

\* records.df with the three columns the older function assigns
WithContaminationColumns(table) ==
    [i \in 1..Len(table) |->
        LET r == table[i]
            in_state_modifier == FDiv(FSub(F(100), r.Out_of_State__c), F(100))
            contaminated ==
                FMul(FMul(FDiv(r.Annual_Recycling_Contamination_Rate__c, F(100)),
                          r.Combined_Total_of_Material_Recycled__c),
                     in_state_modifier)
        IN [index |-> r.index,
            Calendar_Year__c |-> r.Calendar_Year__c,
            Out_of_State__c |-> r.Out_of_State__c,
            Municipal_Solid_Waste__c |-> r.Municipal_Solid_Waste__c,
            Annual_Recycling_Contamination_Rate__c |-> r.Annual_Recycling_Contamination_Rate__c,
            Combined_Total_of_Material_Recycled__c |-> r.Combined_Total_of_Material_Recycled__c,
            in_state_modifier |-> in_state_modifier,
            recycling_tons_contaminated |-> contaminated,
            recycling_tons_report_contamination_total |->
                IF IsNaN(contaminated) THEN NaN
                ELSE FMul(r.Combined_Total_of_Material_Recycled__c, in_state_modifier)]]

\* records.df when the function raises after the first n of its four
\* writes, in the order it makes them: in_state_modifier (main.py:467),
\* recycling_tons_contaminated (468-473), the total set to pd.NA in every
\* row (474), the total filled where the contaminated tons are known
\* (475-477)
ContaminationColumnsWritten(table, n) ==
    LET order == <<"in_state_modifier", "recycling_tons_contaminated",
                   "recycling_tons_report_contamination_total">>
        written == {order[k] : k \in 1..(IF n > 3 THEN 3 ELSE n)}
        full == WithContaminationColumns(table)
    IN [i \in 1..Len(table) |->
           [f \in (DOMAIN table[i]) \cup written |->
               IF n = 3 /\ f = "recycling_tons_report_contamination_total"
               THEN NaN
               ELSE full[i][f]]]

\* the series returned by the older function
_contamination_rates_by_tonnage(table) ==
    LET with_columns == WithContaminationColumns(table)
        years == CalendarYears(with_columns)
        rate(y) ==
            LET year_df == YearSlice(with_columns, y)
            IN FMul(FSub(F(1),
                         FDiv(FSum(Column(year_df, "recycling_tons_contaminated")),
                              FSum(Column(year_df,
                                          "recycling_tons_report_contamination_total")))),
                    F(100))
    IN [k \in 1..Len(years) |->
           [data_year |-> convert_to_int(years[k]), rate |-> rate(years[k])]]

\* one call of Skid._contamination_rates_by_tonnage(records)
ContaminationRatesByTonnage ==
    /\ pc = "_contamination_rates_by_tonnage"
    /\ df' = WithContaminationColumns(df)
    /\ recovery_rates' = _contamination_rates_by_tonnage(df)
    /\ pc' = "done"
    /\ UNCHANGED <<raw_df, county_fields, dedup_vars, county_vars, statewide, facility_metrics,
                   facility_vars, material_vars, validation_vars, mapping_vars, error,
                   first_run, given_fields, process_vars>>

\* the records of the recycling facilities of up to two years
RecoveryRows ==
    {[index |-> 0,
      Calendar_Year__c |-> y,
      Out_of_State__c |-> oos,
      Municipal_Solid_Waste__c |-> msw,
      Annual_Recycling_Contamination_Rate__c |-> rate,
      Combined_Total_of_Material_Recycled__c |-> F(100)] :
        y \in Years, oos \in {F(0), F(100)}, msw \in {F(100), F(50)},
        rate \in {F(0), F(10), F(20)}}

InitRecovery ==
    /\ \E rows \in SeqsUpTo(RecoveryRows, MaxYearRows) : raw_df = WithRangeIndex(rows)
    /\ df = raw_df
    /\ county_fields = <<>>
    /\ pc \in {"recovery_rates_by_tonnage", "_contamination_rates_by_tonnage"}
    /\ NothingComputed
    /\ NoMaterials
    /\ metrics_df = <<>> /\ current_year = 0
    /\ all_columns = {}
    /\ NoRerun /\ NoProcess

NextRecovery == RecoveryRatesByTonnage \/ ContaminationRatesByTonnage

SpecRecovery == InitRecovery /\ [][NextRecovery]_vars

(***************************************************************************)
(* The runs.  Skid.process updates the map layers; run_validations writes  *)
(* the year-over-year report.  A run is a sequence of calls and pc names   *)
(* the call to make next.  What the aggregations compute and what the      *)
(* feature service does with a layer are outside this part of the model:   *)
(* an aggregation returns its table or raises, a write returns or raises.  *)
(***************************************************************************)
\* the calls of process() in the order of the code
ProcessSteps ==
    <<[kind |-> "connect", name |-> "arcgis.gis.GIS"],
      [kind |-> "extract", name |-> "_load_salesforce_data"],
      [kind |-> "aggregate", name |-> "_facility_summaries"],
      [kind |-> "aggregate", name |-> "_county_summaries"],
      [kind |-> "aggregate", name |-> "_materials_recycled"],
      [kind |-> "aggregate", name |-> "_materials_composted"],
      [kind |-> "load", name |-> "_update_facilities"],
      [kind |-> "load", name |-> "_update_counties"],
      [kind |-> "load", name |-> "materials_loader"],
      [kind |-> "load", name |-> "composting_loader"],
      [kind |-> "aggregate", name |-> "statewide_yearly_metrics"],
      [kind |-> "aggregate", name |-> "_contamination_rates_by_tonnage"],
      [kind |-> "load", name |-> "statewide_loader"],
      [kind |-> "notify", name |-> "supervisor.notify"]>>

\* the report written before the comparisons are made
ValidationReportFirst ==
    <<[kind |-> "extract", name |-> "run_validations: _load_salesforce_data"],
      [kind |-> "aggregate", name |-> "run_validations: deduplicate_records_on_facility_id"],
      [kind |-> "aggregate", name |-> "run_validations: facility_metrics"],
      [kind |-> "aggregate", name |-> "run_validations: counties"],
      [kind |-> "report", name |-> "to_csv"],
      [kind |-> "compare", name |-> "facility_year_over_year"],
      [kind |-> "compare", name |-> "county_year_over_year"],
      [kind |-> "compare", name |-> "state_year_over_year"]>>

\* the calls of run_validations() in their order
ValidationSteps ==
    <<[kind |-> "extract", name |-> "run_validations: _load_salesforce_data"],
      [kind |-> "aggregate", name |-> "run_validations: deduplicate_records_on_facility_id"],
      [kind |-> "aggregate", name |-> "run_validations: facility_metrics"],
      [kind |-> "aggregate", name |-> "run_validations: counties"],
      [kind |-> "compare", name |-> "facility_year_over_year"],
      [kind |-> "compare", name |-> "county_year_over_year"],
      [kind |-> "compare", name |-> "state_year_over_year"],
      [kind |-> "report", name |-> "to_csv"]>>

\* the calls of the run pc is in
StepsOfRun ==
    IF \E i \in 1..Len(ProcessSteps) : ProcessSteps[i].name = pc
    THEN ProcessSteps
    ELSE ValidationSteps

\* whether pc is a call of the kind
AtStep(kind) == \E i \in 1..Len(StepsOfRun) :
                    StepsOfRun[i].name = pc /\ StepsOfRun[i].kind = kind

\* the call after the one pc names, "done" after the last
StepAfter ==
    LET i == CHOOSE j \in 1..Len(StepsOfRun) : StepsOfRun[j].name = pc
    IN IF i = Len(StepsOfRun) THEN "done" ELSE StepsOfRun[i + 1].name

\* the exceptions that leave a call: a column or key not found, a value
\* refused, any other
ExceptionTypes == {"KeyError", "ValueError", "Exception"}

\* an exception of the type leaving the call of that name
Raised(type, name) == [type |-> type, args |-> <<name>>]

\* records = self._load_salesforce_data(): the field mapping is built from
\* the columns of the report object and the records are extracted, or the
\* extraction raises
ProcessLoadSalesforceData ==
    /\ AtStep("extract")
    /\ \/ LET result == MappingLoop(1, all_columns, <<>>, <<>>)
          IN IF result.missing_fields # <<>>
             THEN /\ error' = [type |-> "ValueError",
                               args |-> <<"Missing fields: ", result.missing_fields>>]
                  /\ field_mapping' = <<>>
                  /\ pc' = "failed"
                  /\ UNCHANGED df
             ELSE /\ error' = NoError
                  /\ field_mapping' = result.field_mapping
                  /\ df' = raw_df
                  /\ pc' = StepAfter
       \/ /\ \E type \in ExceptionTypes : error' = Raised(type, pc)
          /\ pc' = "failed"
          /\ UNCHANGED <<df, field_mapping>>
    /\ UNCHANGED <<raw_df, county_fields, dedup_vars, county_vars, statewide, facility_metrics,
                   facility_vars, material_vars, validation_vars, all_columns, rerun_vars,
                   process_vars>>

\* one of the aggregations of a run: it returns its table, or raises.
\* _contamination_rates_by_tonnage writes its three columns into records.df
\* and returns the rates of the years; when it raises, records.df keeps what
\* was written before the raise: nothing (a raise in line 467), the first
\* column (469-473), the first two (474), the total still pd.NA in every row
\* (475-477), or the three columns as on return (the groupby of 479-488, the
\* index map of 491)
ProcessAggregate ==
    /\ AtStep("aggregate")
    /\ \/ /\ aggregated' = aggregated \cup {pc}
          /\ IF pc = "_contamination_rates_by_tonnage"
             THEN /\ df' = WithContaminationColumns(df)
                  /\ recovery_rates' = _contamination_rates_by_tonnage(df)
             ELSE UNCHANGED <<df, recovery_rates>>
          /\ pc' = StepAfter
          /\ UNCHANGED error
       \/ /\ \E type \in ExceptionTypes : error' = Raised(type, pc)
          /\ pc' = "failed"
          /\ IF pc = "_contamination_rates_by_tonnage"
             THEN \E n \in 0..4 : df' = ContaminationColumnsWritten(df, n)
             ELSE UNCHANGED df
          /\ UNCHANGED <<aggregated, recovery_rates>>
    /\ UNCHANGED <<raw_df, county_fields, dedup_vars, county_vars, statewide, facility_metrics,
                   facility_vars, material_vars, validation_vars, mapping_vars, first_run,
                   given_fields, loads, summary_sent>>

\* gis = arcgis.gis.GIS(...): the connection is made, or the call raises
ProcessGis ==
    /\ AtStep("connect")
    /\ \/ /\ pc' = StepAfter
          /\ UNCHANGED error
       \/ /\ \E type \in ExceptionTypes : error' = Raised(type, pc)
          /\ pc' = "failed"
    /\ UNCHANGED <<records, dedup_vars, county_vars, statewide, facility_metrics, facility_vars,
                   material_vars, validation_vars, mapping_vars, rerun_vars, process_vars>>

\* one load step of process(): the work that prepares the layer (sheets
\* read, live layer fetched, tables merged, geometries added, updater
\* constructed), which can raise, and then truncate_and_load_features, which
\* returns or raises.  loads holds the truncate_and_load_features invoked so
\* far, whether they returned or raised
ProcessTruncateAndLoad ==
    /\ AtStep("load")
    /\ \/ /\ \E type \in ExceptionTypes : error' = Raised(type, pc)
          /\ pc' = "failed"
          /\ UNCHANGED loads
       \/ /\ loads' = Append(loads, pc)
          /\ \/ /\ pc' = StepAfter
                /\ UNCHANGED error
             \/ /\ \E type \in ExceptionTypes : error' = Raised(type, pc)
                /\ pc' = "failed"
    /\ UNCHANGED <<records, dedup_vars, county_vars, statewide, facility_metrics, facility_vars,
                   material_vars, validation_vars, mapping_vars, rerun_vars, aggregated,
                   summary_sent>>

\* self.supervisor.notify(summary_message): it returns with the summary
\* handed over, or raises, with the summary handed over or not
ProcessNotify ==
    /\ AtStep("notify")
    /\ \/ /\ summary_sent' = TRUE
          /\ pc' = StepAfter
          /\ UNCHANGED error
       \/ /\ summary_sent' \in BOOLEAN
          /\ \E type \in ExceptionTypes : error' = Raised(type, pc)
          /\ pc' = "failed"
    /\ UNCHANGED <<records, dedup_vars, county_vars, statewide, facility_metrics, facility_vars,
                   material_vars, validation_vars, mapping_vars, rerun_vars, aggregated,
                   loads>>

\* the annual reports held by Salesforce at the time of a run: none, one
\* record wholly out of state, one record of 2023 alone, or two in-state and
\* two out-of-state records of two years
ProcessRecords ==
    LET row(y, oos, rate) ==
            [index |-> 0,
             Calendar_Year__c |-> y,
             Out_of_State__c |-> F(oos),
             Municipal_Solid_Waste__c |-> F(100),
             Annual_Recycling_Contamination_Rate__c |-> F(rate),
             Combined_Total_of_Material_Recycled__c |-> F(100)]
    IN {<<>>,
        WithRangeIndex(<<row(Y2022, 100, 10)>>),
        WithRangeIndex(<<row(Y2023, 0, 10)>>),
        WithRangeIndex(<<row(Y2022, 0, 10), row(Y2022, 100, 0),
                         row(Y2023, 0, 10), row(Y2023, 100, 20)>>)}

\* a run starts with the columns of the report object, whatever they are,
\* and no records loaded yet
InitProcess ==
    /\ raw_df \in ProcessRecords /\ df = <<>> /\ county_fields = <<>>
    /\ pc = ProcessSteps[1].name
    /\ NothingComputed
    /\ NoMaterials
    /\ metrics_df = <<>> /\ current_year = 0
    /\ NoRerun /\ NoProcess
    /\ \E absent \in SUBSET MaybeAbsent :
          all_columns = (Range(SalesforceFields) \ {SalesforceFields[i] : i \in absent})
                           \cup OtherColumns

NextProcess ==
    \/ ProcessGis
    \/ ProcessLoadSalesforceData
    \/ ProcessAggregate
    \/ ProcessTruncateAndLoad
    \/ ProcessNotify

SpecProcess == InitProcess /\ [][NextProcess]_vars

\* the years of the index of a table aggregated from the records: one group
\* per calendar year, the year converted to an integer
IndexYears(table) == {convert_to_int(y) : y \in Range(CalendarYears(table))}

\* one of facility_year_over_year, county_year_over_year and
\* state_year_over_year: each ends in _year_over_year_changes on a table
\* indexed by the years of the records, which raises when the year asked for
\* or the year before it is not in the index
ProcessCompare ==
    /\ AtStep("compare")
    /\ IF current_year \notin IndexYears(df)
       THEN /\ error' = [type |-> "ValueError",
                         args |-> YearNotFound("Current year", current_year)]
            /\ pc' = "failed"
            /\ UNCHANGED aggregated
       ELSE IF PreviousYear(current_year) \notin IndexYears(df)
       THEN /\ error' = [type |-> "ValueError",
                         args |-> YearNotFound("Previous year", PreviousYear(current_year))]
            /\ pc' = "failed"
            /\ UNCHANGED aggregated
       ELSE /\ aggregated' = aggregated \cup {pc}
            /\ pc' = StepAfter
            /\ UNCHANGED error
    /\ UNCHANGED <<records, dedup_vars, county_vars, statewide, facility_metrics, facility_vars,
                   material_vars, validation_vars, mapping_vars, rerun_vars, loads,
                   summary_sent>>

\* the changes renamed, concatenated and reindexed, which can raise, and
\* then to_csv(report_path): the report is the one write of a validation run
ProcessToCsv ==
    /\ AtStep("report")
    /\ \/ /\ \E type \in ExceptionTypes : error' = Raised(type, pc)
          /\ pc' = "failed"
          /\ UNCHANGED loads
       \/ /\ loads' = Append(loads, pc)
          /\ \/ /\ pc' = StepAfter
                /\ UNCHANGED error
             \/ /\ \E type \in ExceptionTypes : error' = Raised(type, pc)
                /\ pc' = "failed"
    /\ UNCHANGED <<records, dedup_vars, county_vars, statewide, facility_metrics, facility_vars,
                   material_vars, validation_vars, mapping_vars, rerun_vars, aggregated,
                   summary_sent>>

\* a validation run starts as a run of process() does, with the year to
\* compare
InitValidation ==
    /\ raw_df \in ProcessRecords /\ df = <<>> /\ county_fields = <<>>
    /\ pc = ValidationSteps[1].name
    /\ NothingComputed
    /\ NoMaterials
    /\ metrics_df = <<>> /\ current_year \in CurrentYears
    /\ NoRerun /\ NoProcess
    /\ \E absent \in SUBSET MaybeAbsent :
          all_columns = (Range(SalesforceFields) \ {SalesforceFields[i] : i \in absent})
                           \cup OtherColumns

\* a run of either kind
InitRuns == InitProcess \/ InitValidation

NextRuns ==
    \/ ProcessGis
    \/ ProcessLoadSalesforceData
    \/ ProcessAggregate
    \/ ProcessTruncateAndLoad
    \/ ProcessNotify
    \/ ProcessCompare
    \/ ProcessToCsv

SpecRuns == InitRuns /\ [][NextRuns]_vars

(***************************************************************************)
(* The aggregators run twice on the same records object and the same list  *)
(* objects: the second run reads whatever the first run left in them.      *)
(***************************************************************************)
\* the aggregate tables computed so far
AggregateTables ==
    [county_df |-> county_df,
     statewide |-> statewide,
     facility_metrics |-> facility_metrics,
     material_rates |-> material_rates,
     recovery_rates |-> recovery_rates,
     error |-> error]

\* the first aggregator of the run that has just ended
FirstAggregator ==
    IF pc = "facilities" THEN "counties"
    ELSE IF classification # "" THEN "rates_per_material"
    ELSE IF \E i \in 1..Len(df) : "recovery_rate" \in DOMAIN df[i]
         THEN "recovery_rates_by_tonnage"
    ELSE "_contamination_rates_by_tonnage"

\* the caller keeps the tables of the first run and calls the aggregators again
\* with the same records and lists
Rerun ==
    /\ pc \in {"facilities", "done", "failed"}
    /\ first_run = <<>>
    /\ first_run' = <<AggregateTables>>
    /\ pc' = FirstAggregator
    /\ UNCHANGED <<records, dedup_vars, county_vars, statewide, facility_metrics,
                   facility_vars, material_vars, validation_vars, mapping_vars, error,
                   recovery_rates, given_fields, process_vars>>

\* snapshots of two records for each group of aggregators
InitTwice ==
    /\ \/ /\ \E a, b \in RecordRows : raw_df = WithRangeIndex(<<a, b>>)
          /\ county_fields \in CountyFieldLists
          /\ pc = "counties"
          /\ classification = "" /\ renamed_fields = <<>> /\ total_field = <<>>
       \/ /\ \E a, b \in MaterialRows : raw_df = WithRangeIndex(<<a, b>>)
          /\ county_fields = <<>>
          /\ pc = "rates_per_material"
          /\ \E call \in MaterialCalls : classification = call[1] /\ renamed_fields = call[2]
          /\ total_field = Combined_Total_of_Material_Received__c
       \/ /\ \E a, b \in RecoveryRows : raw_df = WithRangeIndex(<<a, b>>)
          /\ county_fields = <<>>
          /\ pc \in {"recovery_rates_by_tonnage", "_contamination_rates_by_tonnage"}
          /\ classification = "" /\ renamed_fields = <<>> /\ total_field = <<>>
    /\ df = raw_df
    /\ NothingComputed
    /\ metrics_df = <<>> /\ current_year = 0
    /\ all_columns = {}
    /\ NoRerun /\ NoProcess

NextTwice ==
    \/ Counties
    \/ StatewideMetrics
    \/ FacilityMetrics
    \/ RatesPerMaterial
    \/ RecoveryRatesByTonnage
    \/ ContaminationRatesByTonnage
    \/ Rerun

SpecTwice == InitTwice /\ [][NextTwice]_vars

(***************************************************************************)
(* summarize.facilities on deduplicated records whose contact information  *)
(* and modification dates differ from report to report.                    *)
(***************************************************************************)
LF01 == <<"L", "F", "0", "1">>

\* name and id of the facilities; LF01 and SW01 differ in the prefix only
InfoFacilities == {<<foo, SW01>>, <<Foo, SW01>>, <<foo, SW02>>, <<foo, LF01>>}

InfoPhones == {<<"5", "5", "5">>, <<"5", "5", "6">>}

InfoRows ==
    {[FacilityRow(y, fac, F(50), <<F(10), F(1), F(0), F(2), F(10), F(3), F(4), F(5), F(6), F(80)>>)
         EXCEPT !.LastModifiedDate = date, !.Facility_Phone_Number__c = phone] :
        y \in Years, fac \in InfoFacilities, date \in {20220101, 20230102},
        phone \in InfoPhones}

\* one record per facility id and calendar year, as the deduplicator leaves them
InitFacilityInfo ==
    /\ \E rows \in SeqsUpTo(InfoRows, MaxYearRows) :
          /\ \A i, j \in 1..Len(rows) :
                (/\ rows[i].facility_id = rows[j].facility_id
                 /\ rows[i].Calendar_Year__c = rows[j].Calendar_Year__c) => i = j
          /\ raw_df = WithRangeIndex(rows)
    /\ df = raw_df
    /\ county_fields = <<>>
    /\ pc = "facilities"
    /\ NothingComputed
    /\ classification = "" /\ renamed_fields = <<>> /\ total_field = <<>>
    /\ metrics_df = <<>> /\ current_year = 0
    /\ all_columns = {}
    /\ NoRerun /\ NoProcess

NextFacilityInfo == Facilities

SpecFacilityInfo == InitFacilityInfo /\ [][NextFacilityInfo]_vars

(***************************************************************************)
(* summarize.materials_recycled and summarize.materials_composted: the     *)
(* material rates of every year for the fields of a report.                *)
(***************************************************************************)
\* the aliases of the materials recycled report
recycling_fields ==
    <<
    \* "Combined Total of Material Recycled"
    <<"C", "o", "m", "b", "i", "n", "e", "d", " ", "T", "o", "t", "a", "l", " ", "o", "f", " ",
      "M", "a", "t", "e", "r", "i", "a", "l", " ", "R", "e", "c", "y", "c", "l", "e", "d">>,
    \* "Total Paper Materials recycled"
    <<"T", "o", "t", "a", "l", " ", "P", "a", "p", "e", "r", " ", "M", "a", "t", "e", "r", "i",
      "a", "l", "s", " ", "r", "e", "c", "y", "c", "l", "e", "d">>,
    \* "Total Plastic Materials recycled"
    <<"T", "o", "t", "a", "l", " ", "P", "l", "a", "s", "t", "i", "c", " ", "M", "a", "t", "e",
      "r", "i", "a", "l", "s", " ", "r", "e", "c", "y", "c", "l", "e", "d">>,
    \* "Total Glass Materials recycled"
    <<"T", "o", "t", "a", "l", " ", "G", "l", "a", "s", "s", " ", "M", "a", "t", "e", "r", "i",
      "a", "l", "s", " ", "r", "e", "c", "y", "c", "l", "e", "d">>,
    \* "Total Metal Materials recycled"
    <<"T", "o", "t", "a", "l", " ", "M", "e", "t", "a", "l", " ", "M", "a", "t", "e", "r", "i",
      "a", "l", "s", " ", "r", "e", "c", "y", "c", "l", "e", "d">>,
    \* "Total Rubber Materials recycled"
    <<"T", "o", "t", "a", "l", " ", "R", "u", "b", "b", "e", "r", " ", "M", "a", "t", "e", "r",
      "i", "a", "l", "s", " ", "r", "e", "c", "y", "c", "l", "e", "d">>,
    \* "Total Leather Materials recycled"
    <<"T", "o", "t", "a", "l", " ", "L", "e", "a", "t", "h", "e", "r", " ", "M", "a", "t", "e",
      "r", "i", "a", "l", "s", " ", "r", "e", "c", "y", "c", "l", "e", "d">>,
    \* "Total Textile Materials recycled"
    <<"T", "o", "t", "a", "l", " ", "T", "e", "x", "t", "i", "l", "e", " ", "M", "a", "t", "e",
      "r", "i", "a", "l", "s", " ", "r", "e", "c", "y", "c", "l", "e", "d">>,
    \* "Total Wood Materials recycled"
    <<"T", "o", "t", "a", "l", " ", "W", "o", "o", "d", " ", "M", "a", "t", "e", "r", "i", "a",
      "l", "s", " ", "r", "e", "c", "y", "c", "l", "e", "d">>,
    \* "Total Tires recycled"
    <<"T", "o", "t", "a", "l", " ", "T", "i", "r", "e", "s", " ", "r", "e", "c", "y", "c", "l",
      "e", "d">>,
    \* "Total Electronics recycled"
    <<"T", "o", "t", "a", "l", " ", "E", "l", "e", "c", "t", "r", "o", "n", "i", "c", "s", " ",
      "r", "e", "c", "y", "c", "l", "e", "d">>,
    \* "Total ICD recycled"
    <<"T", "o", "t", "a", "l", " ", "I", "C", "D", " ", "r", "e", "c", "y", "c", "l", "e", "d">>,
    \* "Total SW Stream Materials recycled"
    <<"T", "o", "t", "a", "l", " ", "S", "W", " ", "S", "t", "r", "e", "a", "m", " ", "M", "a",
      "t", "e", "r", "i", "a", "l", "s", " ", "r", "e", "c", "y", "c", "l", "e", "d">>
    >>

\* the aliases of the materials composted report
composting_fields ==
    <<
    \* "Municipal Solid Waste"
    <<"M", "u", "n", "i", "c", "i", "p", "a", "l", " ", "S", "o", "l", "i", "d", " ", "W", "a",
      "s", "t", "e">>,
    \* "Total Material Received Compost"
    <<"T", "o", "t", "a", "l", " ", "M", "a", "t", "e", "r", "i", "a", "l", " ", "R", "e", "c",
      "e", "i", "v", "e", "d", " ", "C", "o", "m", "p", "o", "s", "t">>,
    \* "Total Paper and Paperboard receiced (C)"
    <<"T", "o", "t", "a", "l", " ", "P", "a", "p", "e", "r", " ", "a", "n", "d", " ", "P", "a",
      "p", "e", "r", "b", "o", "a", "r", "d", " ", "r", "e", "c", "e", "i", "c", "e", "d", " ",
      "(", "C", ")">>,
    \* "Total Plastic Materials received (C)"
    <<"T", "o", "t", "a", "l", " ", "P", "l", "a", "s", "t", "i", "c", " ", "M", "a", "t", "e",
      "r", "i", "a", "l", "s", " ", "r", "e", "c", "e", "i", "v", "e", "d", " ", "(", "C", ")">>,
    \* "Total Rubber Materials received (C)"
    <<"T", "o", "t", "a", "l", " ", "R", "u", "b", "b", "e", "r", " ", "M", "a", "t", "e", "r",
      "i", "a", "l", "s", " ", "r", "e", "c", "e", "i", "v", "e", "d", " ", "(", "C", ")">>,
    \* "Total Leather Materials received (C)"
    <<"T", "o", "t", "a", "l", " ", "L", "e", "a", "t", "h", "e", "r", " ", "M", "a", "t", "e",
      "r", "i", "a", "l", "s", " ", "r", "e", "c", "e", "i", "v", "e", "d", " ", "(", "C", ")">>,
    \* "Total Textile Materials received (C)"
    <<"T", "o", "t", "a", "l", " ", "T", "e", "x", "t", "i", "l", "e", " ", "M", "a", "t", "e",
      "r", "i", "a", "l", "s", " ", "r", "e", "c", "e", "i", "v", "e", "d", " ", "(", "C", ")">>,
    \* "Total Wood Materials received (C)"
    <<"T", "o", "t", "a", "l", " ", "W", "o", "o", "d", " ", "M", "a", "t", "e", "r", "i", "a",
      "l", "s", " ", "r", "e", "c", "e", "i", "v", "e", "d", " ", "(", "C", ")">>,
    \* "Total Yard Trimmings received (C)"
    <<"T", "o", "t", "a", "l", " ", "Y", "a", "r", "d", " ", "T", "r", "i", "m", "m", "i", "n",
      "g", "s", " ", "r", "e", "c", "e", "i", "v", "e", "d", " ", "(", "C", ")">>,
    \* "Total Food received (C)"
    <<"T", "o", "t", "a", "l", " ", "F", "o", "o", "d", " ", "r", "e", "c", "e", "i", "v", "e",
      "d", " ", "(", "C", ")">>,
    \* "Total Agricultural Organics received"
    <<"T", "o", "t", "a", "l", " ", "A", "g", "r", "i", "c", "u", "l", "t", "u", "r", "a", "l",
      " ", "O", "r", "g", "a", "n", "i", "c", "s", " ", "r", "e", "c", "e", "i", "v", "e", "d">>,
    \* "Total BFS received"
    <<"T", "o", "t", "a", "l", " ", "B", "F", "S", " ", "r", "e", "c", "e", "i", "v", "e", "d">>,
    \* "Total Drywall received"
    <<"T", "o", "t", "a", "l", " ", "D", "r", "y", "w", "a", "l", "l", " ", "r", "e", "c", "e",
      "i", "v", "e", "d">>,
    \* "Total Other CM received"
    <<"T", "o", "t", "a", "l", " ", "O", "t", "h", "e", "r", " ", "C", "M", " ", "r", "e", "c",
      "e", "i", "v", "e", "d">>
    >>

\* [records.field_mapping[field] for field in fields if field in records.field_mapping]
RenamedFields(fields, mapping) ==
    LET present == {k \in 1..Len(fields) : fields[k] \in DOMAIN mapping}
    IN [k \in 1..Len(FilterSeq(fields, present)) |-> mapping[FilterSeq(fields, present)[k]]]

BFS == <<"B", "F", "S">>

\* materials_composted["material"].replace({"BFS": ...}): whole values only
ReplaceBFS(material) ==
    IF material = BFS
    THEN
         <<"B", "i", "o", "s", "o", "l", "i", "d", "s", ",", " ", "F", "o", "o", "d", " ", "P",
           "r", "o", "c", "e", "s", "s", "i", "n", "g", " ", "R", "e", "s", "i", "d", "u", "a",
           "l", "s", ",", " ", "a", "n", "d", " ", "S", "e", "w", "a", "g", "e", " ", "S", "l",
           "u", "d", "g", "e">>
    ELSE material

\* records.df.groupby("Calendar_Year__c").apply(yearly.rates_per_material, ...) with the
\* year as the integer column year_; every year is passed the same list object, which
\* the call for the first year has updated
MaterialsByYear(table, class, list, total) ==
    LET years == CalendarYears(table)
        group(k) ==
            LET rows == rates_per_material(YearSlice(table, years[k]), class,
                                           IF k = 1 THEN list ELSE _update_fields(list), total)
            IN [j \in 1..Len(rows) |->
                   [year_ |-> convert_to_int(years[k]),
                    material |-> rows[j].material,
                    amount |-> rows[j].amount,
                    percent |-> rows[j].percent]]
    IN Flatten([k \in 1..Len(years) |-> group(k)])

Combined_Total_of_Material_Recycled__c == FieldName(recycling_fields[1])

Total_Material_Received_Compost__c == FieldName(composting_fields[2])

\* one call of summarize.materials_recycled(records)
MaterialsRecycled ==
    /\ pc = "materials_recycled"
    /\ classification' = Recycling
    /\ total_field' = Combined_Total_of_Material_Recycled__c
    /\ renamed_fields' = _update_fields(RenamedFields(recycling_fields, field_mapping))
    /\ material_rates' =
          MaterialsByYear(df, Recycling, RenamedFields(recycling_fields, field_mapping),
                          Combined_Total_of_Material_Recycled__c)
    /\ pc' = "done"
    /\ UNCHANGED <<records, dedup_vars, county_vars, statewide, facility_metrics,
                   facility_vars, validation_vars, mapping_vars, error, rerun_vars,
                   process_vars>>

\* one call of summarize.materials_composted(records)
MaterialsComposted ==
    /\ pc = "materials_composted"
    /\ classification' = Composts
    /\ total_field' = Total_Material_Received_Compost__c
    /\ renamed_fields' = _update_fields(RenamedFields(composting_fields, field_mapping))
    /\ material_rates' =
          LET rows == MaterialsByYear(df, Composts,
                                      RenamedFields(composting_fields, field_mapping),
                                      Total_Material_Received_Compost__c)
          IN [j \in 1..Len(rows) |->
                 [rows[j] EXCEPT !.material = ReplaceBFS(rows[j].material)]]
    /\ pc' = "done"
    /\ UNCHANGED <<records, dedup_vars, county_vars, statewide, facility_metrics,
                   facility_vars, validation_vars, mapping_vars, error, rerun_vars,
                   process_vars>>

\* the columns of the two reports
CatalogColumns ==
    {FieldName(recycling_fields[k]) : k \in 1..Len(recycling_fields)}
        \cup {FieldName(composting_fields[k]) : k \in 1..Len(composting_fields)}

\* a record with the same tons in every material column
CatalogRows ==
    {[index |-> 0,
      Calendar_Year__c |-> y,
      Classifications__c |-> class,
      Out_of_State__c |-> F(0),
      Municipal_Solid_Waste__c |-> F(100),
      material |-> [col \in CatalogColumns |-> t]] :
        y \in Years, class \in {Recycling, Composts}, t \in {F(1), F(2)}}

\* the mapping of every alias of the two reports
CatalogMapping ==
    [alias \in Range(recycling_fields) \cup Range(composting_fields) |-> FieldName(alias)]

\* the mappings of a run: that of helpers._build_field_mapping, that of the
\* aliases of the two reports, and the latter without the paper fields
FieldMappings ==
    {MappingLoop(1, Range(FieldNames), <<>>, <<>>).field_mapping,
     CatalogMapping,
     [alias \in (DOMAIN CatalogMapping) \ {recycling_fields[2], composting_fields[3]} |->
         FieldName(alias)]}

InitCatalogs ==
    /\ \E rows \in SeqsUpTo(CatalogRows, MaxYearRows) : raw_df = WithRangeIndex(rows)
    /\ df = raw_df
    /\ county_fields = <<>>
    /\ pc \in {"materials_recycled", "materials_composted"}
    /\ duplicate_ids = NoDuplicates /\ dedup_runs = 0
    /\ county_by_year = <<>> /\ county_df = <<>> /\ statewide = <<>>
    /\ facility_metrics = <<>> /\ diverted_by_year = <<>> /\ facility_summaries = <<>>
    /\ changes = <<>> /\ without_null_years = <<>>
    /\ NoMaterials
    /\ metrics_df = <<>> /\ current_year = 0
    /\ all_columns = {}
    /\ field_mapping \in FieldMappings
    /\ error = NoError
    /\ NoRerun /\ NoProcess

NextCatalogs == MaterialsRecycled \/ MaterialsComposted

SpecCatalogs == InitCatalogs /\ [][NextCatalogs]_vars

(***************************************************************************)
(* yearly._update_fields called on a list, and again on the list returned, *)
(* which is the same list object.                                          *)
(***************************************************************************)
bar == <<"b", "a", "r">>

\* the longest list passed
MaxFields == 4

\* the lists of fields a caller passes: column names, each named once, the
\* modifier fields among them or not, in any order
FieldLists ==
    {list \in SeqsUpTo({foo, bar, Out_of_State__c, Municipal_Solid_Waste__c}, MaxFields)
                  \cup {<<>>} :
        \A j, k \in 1..Len(list) : list[j] = list[k] => j = k}

\* one call of yearly._update_fields(fields) on the caller's list
UpdateFields ==
    /\ pc \in {"_update_fields", "_update_fields again"}
    /\ renamed_fields' = _update_fields(renamed_fields)
    /\ IF pc = "_update_fields"
       THEN first_run' = <<renamed_fields'>> /\ pc' = "_update_fields again"
       ELSE first_run' = first_run /\ pc' = "done"
    /\ UNCHANGED <<records, dedup_vars, county_vars, statewide, facility_metrics,
                   facility_vars, classification, total_field, material_rates,
                   validation_vars, mapping_vars, error, recovery_rates, given_fields,
                   process_vars>>

InitUpdateFields ==
    /\ raw_df = <<>> /\ df = <<>>
    /\ county_fields = <<>>
    /\ pc = "_update_fields"
    /\ NothingComputed
    /\ classification = "" /\ total_field = <<>>
    /\ renamed_fields \in FieldLists
    /\ given_fields = renamed_fields
    /\ metrics_df = <<>> /\ current_year = 0
    /\ all_columns = {}
    /\ recovery_rates = <<>> /\ first_run = <<>>
    /\ NoProcess

NextUpdateFields == UpdateFields

SpecUpdateFields == InitUpdateFields /\ [][NextUpdateFields]_vars

(***************************************************************************)
(* Properties of the deduplicator.                                         *)
(***************************************************************************)
\* the rows of the extracted table with the facility and year of row i
GroupOf(i) ==
    {j \in 1..Len(raw_df) :
        /\ raw_df[j].facility_id = raw_df[i].facility_id
        /\ raw_df[j].Calendar_Year__c = raw_df[i].Calendar_Year__c}

\* the row of the group of i with the maximum LastModifiedDate, the latest
\* in the original order when several share it
WinnerOf(i) ==
    LET latest == {j \in GroupOf(i) :
                      \A k \in GroupOf(i) :
                          raw_df[k].LastModifiedDate <= raw_df[j].LastModifiedDate}
    IN CHOOSE j \in latest : \A k \in latest : k <= j

\* C1: after the deduplicator has run, every (facility_id, calendar_year)
\* pair of the input occurs in exactly one surviving row, which is the input
\* row of the group with the maximum last_modified_at (the latest in the
\* original order among equals); different years of one facility are never
\* collapsed.
C1_DedupKeepsLatestPerPair ==
    dedup_runs = 1 =>
        /\ \A i \in 1..Len(raw_df) :
              LET survivors == {r \in 1..Len(df) :
                                   /\ df[r].facility_id = raw_df[i].facility_id
                                   /\ df[r].Calendar_Year__c = raw_df[i].Calendar_Year__c}
              IN /\ Cardinality(survivors) = 1
                 /\ \A r \in survivors : df[r] = raw_df[WinnerOf(i)]
        /\ \A r \in 1..Len(df) : \E i \in 1..Len(raw_df) : df[r] = raw_df[i]

\* a facility with two rows of one year sharing the maximum date, that date
\* lying in a later year than the calendar year, and a row of another year
C1_Witness ==
    /\ dedup_runs = 1
    /\ \E i, j, k \in 1..Len(raw_df) :
          /\ i < j
          /\ j \in GroupOf(i)
          /\ raw_df[i].LastModifiedDate = raw_df[j].LastModifiedDate
          /\ raw_df[i].LastModifiedDate \div 10000 > ParseInt(raw_df[i].Calendar_Year__c)
          /\ raw_df[k].facility_id = raw_df[i].facility_id
          /\ raw_df[k].Calendar_Year__c # raw_df[i].Calendar_Year__c
          /\ \E r \in 1..Len(df) : df[r] = raw_df[j]
          /\ \E r \in 1..Len(df) : df[r] = raw_df[k]

\* C2: the deduplicator is idempotent: a second run on its own output leaves
\* the table unchanged (same rows, same order) and reports no duplicates.
C2_DedupIdempotent ==
    [][(dedup_runs >= 1 /\ dedup_runs' = dedup_runs + 1)
          => (df' = df /\ duplicate_ids' = NoDuplicates)]_vars

\* a second run after a first run that removed rows and left rows of equal date
C2_Witness ==
    /\ dedup_runs = 2
    /\ Len(df) < Len(raw_df)
    /\ \E r, q \in 1..Len(df) : r # q /\ df[r].LastModifiedDate = df[q].LastModifiedDate

\* the calendar years in which facility f has more than one row in the input
DuplicatedYearsOf(f) ==
    {raw_df[i].Calendar_Year__c : i \in {j \in 1..Len(raw_df) :
        raw_df[j].facility_id = f /\ Cardinality(GroupOf(j)) > 1}}

\* C3: the duplicate report holds a facility_id if and only if one of its
\* (facility_id, calendar_year) groups had more than one row in the input,
\* and the value listed for it names exactly the years of those groups.
C3_DuplicateReport ==
    dedup_runs = 1 =>
        /\ DOMAIN duplicate_ids = {f \in FacilityIds : DuplicatedYearsOf(f) # {}}
        /\ \A f \in DOMAIN duplicate_ids :
              \E ys \in [1..Cardinality(DuplicatedYearsOf(f)) -> DuplicatedYearsOf(f)] :
                  /\ Range(ys) = DuplicatedYearsOf(f)
                  /\ duplicate_ids[f] = StrJoin(CommaSpace, ys)

\* a facility duplicated in two years, so that its value lists both
C3_Witness ==
    /\ dedup_runs = 1
    /\ \E f \in DOMAIN duplicate_ids :
          /\ Cardinality(DuplicatedYearsOf(f)) = 2
          /\ Len(duplicate_ids[f]) = 10

(***************************************************************************)
(* Properties of the county summaries.                                     *)
(***************************************************************************)
RECURSIVE TotalOf(_)
\* the total of the values of f that are not missing
TotalOf(f) ==
    IF DOMAIN f = {} THEN F(0)
    ELSE LET i == CHOOSE j \in DOMAIN f : TRUE
             rest == TotalOf([j \in (DOMAIN f) \ {i} |-> f[j]])
         IN IF IsNaN(f[i]) THEN rest ELSE FAdd(f[i], rest)

\* rate = diverted / (diverted + landfilled) * 100, missing for 0 / 0
RateIs(rate, diverted, landfilled) ==
    LET total == FAdd(diverted, landfilled)
    IN IF IsNum(total) /\ total.n # 0
       THEN IsNum(rate) /\ FMul(rate, total) = FMul(diverted, F(100))
       ELSE IF IsNum(diverted) /\ diverted.n # 0 THEN rate.k = "inf" ELSE IsNaN(rate)

CountiesDone == pc \in {"statewide_metrics", "facility_metrics", "facilities", "done"}

\* the tons of one record that go to one county in one category
C4_Share(r, county, category) ==
    LET percent == FDiv(r.county[county], F(100))
        msw == FDiv(r.Municipal_Solid_Waste__c, F(100))
    IN CASE category = "recycled" ->
              FMul(percent, FMul(msw, r.Combined_Total_of_Material_Recycled__c))
         [] category = "composted" ->
              FMul(percent, FMul(msw, r.Total_Materials_sent_to_composting__c))
         [] category = "digested" ->
              FMul(percent, FMul(msw, r.Total_Material_managed_by_ADC__c))
         [] category = "landfilled" ->
              FMul(percent, r.Municipal_Waste_In_State_in_Tons__c)

C4_Expected(year, county, category) ==
    LET rows == {i \in 1..Len(df) : df[i].Calendar_Year__c = year}
    IN TotalOf([i \in rows |-> C4_Share(df[i], county, category)])

\* C4: for every county field and every year of the records the county
\* summaries hold a row whose recycled, composted and digested tons are the
\* sums over the records of the year of county % / 100 * MSW % / 100 * the
\* recycled, composting and AD/C tons, and whose landfilled tons are the sum
\* of county % / 100 * in-state municipal waste tons, without the MSW modifier.
C4_CountyFormulas ==
    CountiesDone =>
        /\ \A i \in 1..Len(df), j \in 1..Len(county_fields) :
              \E k \in 1..Len(county_by_year) :
                  /\ county_by_year[k].year = df[i].Calendar_Year__c
                  /\ county_by_year[k].row.name = county_fields[j]
        /\ \A k \in 1..Len(county_by_year) :
              LET year == county_by_year[k].year
                  c == county_by_year[k].row
              IN c.name # StatewideName =>
                    /\ c.county_wide_msw_recycled = C4_Expected(year, c.name, "recycled")
                    /\ c.county_wide_msw_composted = C4_Expected(year, c.name, "composted")
                    /\ c.county_wide_msw_digested = C4_Expected(year, c.name, "digested")
                    /\ c.county_wide_msw_landfilled = C4_Expected(year, c.name, "landfilled")

\* two records of one year, half of each in the county: 7.5 tons recycled,
\* 12.5 composted, 2.5 digested and 55 landfilled
C4_Witness ==
    /\ CountiesDone
    /\ \E k \in 1..Len(county_by_year) :
          /\ county_by_year[k].row.name = Cache_County__c
          /\ Cardinality({i \in 1..Len(df) :
                            df[i].Calendar_Year__c = county_by_year[k].year}) = 2
          /\ county_by_year[k].row.county_wide_msw_recycled = Frac(15, 2)
          /\ county_by_year[k].row.county_wide_msw_composted = Frac(25, 2)
          /\ county_by_year[k].row.county_wide_msw_digested = Frac(5, 2)
          /\ county_by_year[k].row.county_wide_msw_landfilled = F(55)

\* the positions of the rows of one year in the per-year county summaries
C5_RowsOf(year) == {k \in 1..Len(county_by_year) : county_by_year[k].year = year}

C5_CountyRowsOf(year) ==
    {k \in C5_RowsOf(year) : county_by_year[k].row.name # StatewideName}

\* C5: the county summary of a year holds one row per county field, in the
\* order of the fields, followed by one row named Statewide; each of the four
\* tonnage totals of the Statewide row is the sum of the column over all
\* county rows, an out-of-state row included, and the diverted total and the
\* recycling rate of the Statewide row are computed from its own totals.
C5_StatewideRow ==
    CountiesDone =>
        \A year \in {df[i].Calendar_Year__c : i \in 1..Len(df)} :
            LET first == CHOOSE k \in C5_RowsOf(year) : \A q \in C5_RowsOf(year) : k <= q
                last == first + Len(county_fields)
                state == county_by_year[last].row
                column(Value(_)) ==
                    TotalOf([k \in C5_CountyRowsOf(year) |-> Value(county_by_year[k].row)])
                recycled(c) == c.county_wide_msw_recycled
                composted(c) == c.county_wide_msw_composted
                digested(c) == c.county_wide_msw_digested
                landfilled(c) == c.county_wide_msw_landfilled
            IN /\ C5_RowsOf(year) = first..last
               /\ \A j \in 1..Len(county_fields) :
                     county_by_year[first + j - 1].row.name = county_fields[j]
               /\ state.name = StatewideName
               /\ state.county_wide_msw_recycled = column(recycled)
               /\ state.county_wide_msw_composted = column(composted)
               /\ state.county_wide_msw_digested = column(digested)
               /\ state.county_wide_msw_landfilled = column(landfilled)
               /\ state.county_wide_msw_diverted_total =
                     FAdd(FAdd(state.county_wide_msw_recycled,
                               state.county_wide_msw_composted),
                          state.county_wide_msw_digested)
               /\ RateIs(state.county_wide_msw_recycling_rate,
                         state.county_wide_msw_diverted_total,
                         state.county_wide_msw_landfilled)

\* an out-of-state row with landfilled tons counted in the Statewide row, whose
\* rate is not the sum of the rates of the county rows
C5_Witness ==
    /\ CountiesDone
    /\ \E k, s \in 1..Len(county_by_year) :
          /\ county_by_year[k].year = county_by_year[s].year
          /\ county_by_year[k].row.name = Out_of_State__c
          /\ county_by_year[k].row.county_wide_msw_landfilled = F(32)
          /\ county_by_year[s].row.name = StatewideName
          /\ county_by_year[s].row.county_wide_msw_landfilled = F(80)
          /\ IsNum(county_by_year[s].row.county_wide_msw_recycling_rate)
          /\ county_by_year[s].row.county_wide_msw_recycling_rate #
                TotalOf([q \in C5_CountyRowsOf(county_by_year[s].year) |->
                            county_by_year[q].row.county_wide_msw_recycling_rate])

(***************************************************************************)
(* Properties of the statewide metrics.                                    *)
(***************************************************************************)
\* the rows of one data year of the county table that are counties of the state
C6_InState(year) ==
    {k \in 1..Len(county_df) :
        /\ county_df[k].data_year = year
        /\ county_df[k].name # OutOfStateName
        /\ county_df[k].name # StatewideName}

\* C6: the statewide metrics of a data year are the sums of the four tonnage
\* columns over the rows of the county table of that year that are named
\* neither Out of State nor Statewide, whether or not such rows are present;
\* the diverted total is recycled + composted + digested of those sums and
\* the recycling rate is diverted / (diverted + landfilled) * 100 of those
\* sums, whatever the rate column of the county table holds.
C6_StatewideMetrics ==
    pc = "facility_metrics" =>
        /\ {statewide[k].data_year : k \in 1..Len(statewide)} =
              {county_df[k].data_year : k \in 1..Len(county_df)}
        /\ \A k, q \in 1..Len(statewide) :
              k < q => statewide[k].data_year < statewide[q].data_year
        /\ \A k \in 1..Len(statewide) :
              LET rows == C6_InState(statewide[k].data_year)
                  m == statewide[k].metrics
              IN /\ m.statewide_msw_recycled =
                       TotalOf([j \in rows |-> county_df[j].county_wide_msw_recycled])
                 /\ m.statewide_msw_composted =
                       TotalOf([j \in rows |-> county_df[j].county_wide_msw_composted])
                 /\ m.statewide_msw_digested =
                       TotalOf([j \in rows |-> county_df[j].county_wide_msw_digested])
                 /\ m.statewide_msw_landfilled =
                       TotalOf([j \in rows |-> county_df[j].county_wide_msw_landfilled])
                 /\ m.statewide_msw_diverted_total =
                       FAdd(FAdd(m.statewide_msw_recycled, m.statewide_msw_composted),
                            m.statewide_msw_digested)
                 /\ RateIs(m.statewide_msw_recycling_rate,
                           m.statewide_msw_diverted_total, m.statewide_msw_landfilled)

\* two counties, an Out of State row with 700 tons landfilled and a Statewide
\* row, none of the latter two counted: 160 tons landfilled, rate 40 / 200 * 100
C6_Witness ==
    /\ pc = "facility_metrics"
    /\ Len(county_df) = 4
    /\ \E k \in 1..Len(county_df) :
          /\ county_df[k].name = OutOfStateName
          /\ county_df[k].county_wide_msw_landfilled = F(700)
    /\ \E k \in 1..Len(county_df) :
          /\ county_df[k].name = StatewideName
          /\ county_df[k].county_wide_msw_landfilled = F(80)
    /\ \E k \in 1..Len(statewide) :
          /\ statewide[k].metrics.statewide_msw_landfilled = F(160)
          /\ statewide[k].metrics.statewide_msw_recycling_rate = F(20)

(***************************************************************************)
(* Properties of the recycling rates and of the county table.              *)
(***************************************************************************)
\* nothing diverted and nothing landfilled in a row of a county table
C7_NothingInCounty(c) ==
    FAdd(c.county_wide_msw_diverted_total, c.county_wide_msw_landfilled) = F(0)

C7_NothingInState(m) ==
    FAdd(m.statewide_msw_diverted_total, m.statewide_msw_landfilled) = F(0)

C7_NothingAtFacility(r) ==
    FAdd(FAdd(FAdd(r.msw_recycled, r.msw_composted), r.msw_digested), r.msw_landfilled) = F(0)

\* C7 as stated: in the county table, the statewide summary and the facility
\* metrics that the summaries hand on, the recycling rate of a row in which
\* diverted total + landfilled is 0 is missing, never 0.
C7_RateMissingInEveryTable ==
    /\ \A k \in 1..Len(county_df) :
          C7_NothingInCounty(county_df[k]) =>
              IsNaN(county_df[k].county_wide_msw_recycling_rate)
    /\ \A k \in 1..Len(statewide) :
          C7_NothingInState(statewide[k].metrics) =>
              IsNaN(statewide[k].metrics.statewide_msw_recycling_rate)
    /\ \A k \in 1..Len(facility_metrics) :
          C7_NothingAtFacility(facility_metrics[k].row) =>
              IsNaN(facility_metrics[k].row.msw_recycling_rate)

\* C7: where diverted total + landfilled is 0, the recycling rate computed by
\* the yearly functions is missing: in the county and Statewide rows of the
\* per-year county summaries, in the statewide summary and in the facility
\* metrics. The statewide summary and the facility metrics hand it on as
\* missing; in the table returned by summarize.counties the rate of such a
\* county or Statewide row is 0.
C7_RateMissingUntilCountiesFillsIt ==
    /\ \A k \in 1..Len(county_by_year) :
          C7_NothingInCounty(county_by_year[k].row) =>
              /\ IsNaN(county_by_year[k].row.county_wide_msw_recycling_rate)
              /\ county_df[k].county_wide_msw_recycling_rate = F(0)
    /\ \A k \in 1..Len(statewide) :
          C7_NothingInState(statewide[k].metrics) =>
              IsNaN(statewide[k].metrics.statewide_msw_recycling_rate)
    /\ \A k \in 1..Len(facility_metrics) :
          C7_NothingAtFacility(facility_metrics[k].row) =>
              IsNaN(facility_metrics[k].row.msw_recycling_rate)

\* a year whose records report no tons at all, after all three summaries
C7_Witness ==
    /\ pc = "facilities"
    /\ \E k \in 1..Len(county_by_year) :
          /\ county_by_year[k].row.name = StatewideName
          /\ C7_NothingInCounty(county_by_year[k].row)
          /\ IsNaN(county_by_year[k].row.county_wide_msw_recycling_rate)
          /\ county_df[k].county_wide_msw_recycling_rate = F(0)
    /\ \E k \in 1..Len(county_by_year) :
          /\ county_by_year[k].row.name = Cache_County__c
          /\ C7_NothingInCounty(county_by_year[k].row)
          /\ county_df[k].county_wide_msw_recycling_rate = F(0)
    /\ \E k \in 1..Len(statewide) :
          /\ C7_NothingInState(statewide[k].metrics)
          /\ IsNaN(statewide[k].metrics.statewide_msw_recycling_rate)
    /\ \E k \in 1..Len(facility_metrics) :
          /\ C7_NothingAtFacility(facility_metrics[k].row)
          /\ IsNaN(facility_metrics[k].row.msw_recycling_rate)

C8_DisplayNameOf(name) ==
    CASE name = Cache_County__c -> <<"C", "a", "c", "h", "e", " ", "C", "o", "u", "n", "t", "y">>
      [] name = Utah_County__c -> <<"U", "t", "a", "h", " ", "C", "o", "u", "n", "t", "y">>
      [] name = Out_of_State__c -> <<"O", "u", "t", " ", "o", "f", " ", "S", "t", "a", "t", "e">>
      [] name = StatewideName -> <<"S", "t", "a", "t", "e", "w", "i", "d", "e">>

C8_YearOf(year) == IF year = Y2022 THEN 2022 ELSE 2023

C8_Filled(before, after) == IF IsNaN(before) THEN after = F(0) ELSE after = before

\* C8: the table returned by summarize.counties has one row per row of the
\* per-year county summaries, in the same order, named by the display name
\* of the county ("__c" removed, underscores turned into spaces), with the
\* year as the integer data_year; a missing value of the summary is 0 in the
\* returned table and every other value is the value of the summary.
C8_CountiesTable ==
    CountiesDone =>
        /\ Len(county_df) = Len(county_by_year)
        /\ \A k \in 1..Len(county_df) :
              LET c == county_by_year[k].row
                  out == county_df[k]
              IN /\ out.name = C8_DisplayNameOf(c.name)
                 /\ out.data_year = C8_YearOf(county_by_year[k].year)
                 /\ C8_Filled(c.county_wide_msw_recycled, out.county_wide_msw_recycled)
                 /\ C8_Filled(c.county_wide_msw_composted, out.county_wide_msw_composted)
                 /\ C8_Filled(c.county_wide_msw_digested, out.county_wide_msw_digested)
                 /\ C8_Filled(c.county_wide_msw_landfilled, out.county_wide_msw_landfilled)
                 /\ C8_Filled(c.county_wide_msw_diverted_total,
                              out.county_wide_msw_diverted_total)
                 /\ C8_Filled(c.county_wide_msw_recycling_rate,
                              out.county_wide_msw_recycling_rate)

\* an Out of State row of 2023 whose missing rate became 0, next to a county
\* row whose rate of 22.5 / 77.5 * 100 is passed through
C8_Witness ==
    /\ CountiesDone
    /\ \E k, q \in 1..Len(county_df) :
          /\ county_df[k].name = <<"O", "u", "t", " ", "o", "f", " ", "S", "t", "a", "t", "e">>
          /\ county_df[k].data_year = 2023
          /\ IsNaN(county_by_year[k].row.county_wide_msw_recycling_rate)
          /\ county_df[k].county_wide_msw_recycling_rate = F(0)
          /\ county_df[q].name = <<"U", "t", "a", "h", " ", "C", "o", "u", "n", "t", "y">>
          /\ county_df[q].data_year = 2023
          /\ county_df[q].county_wide_msw_recycling_rate = Frac(22500, 775)
          /\ county_by_year[q].row.county_wide_msw_recycling_rate = Frac(22500, 775)

(***************************************************************************)
(* Properties of the facility summaries.                                   *)
(***************************************************************************)
\* the place of record i in a table grouped by year: after the records of
\* earlier years and the earlier records of its own year
C9_PlaceOf(i) ==
    Cardinality({j \in 1..Len(df) :
                    \/ StrLess(df[j].Calendar_Year__c, df[i].Calendar_Year__c)
                    \/ (df[j].Calendar_Year__c = df[i].Calendar_Year__c /\ j < i)}) + 1

\* C9: the facility metrics hold one row per record, carrying the id and name
\* of the record, msw_recycled, msw_composted and msw_digested equal to
\* MSW % / 100 times the recycled, composting and AD/C tons of the record,
\* msw_landfilled equal to its in-state landfill tons without modifier, and
\* msw_recycling_rate = diverted / (diverted + landfilled) * 100 of those
\* values of that record alone.
C9_FacilityMetrics ==
    pc \in {"facilities", "done"} =>
        /\ Len(facility_metrics) = Len(df)
        /\ \A i \in 1..Len(df) :
              LET r == df[i]
                  out == facility_metrics[C9_PlaceOf(i)].row
                  msw == FDiv(r.Municipal_Solid_Waste__c, F(100))
              IN /\ facility_metrics[C9_PlaceOf(i)].data_year = C8_YearOf(r.Calendar_Year__c)
                 /\ out.id = r.facility_id
                 /\ out.name = r.Facility_Name__c
                 /\ out.msw_recycled = FMul(msw, r.Combined_Total_of_Material_Recycled__c)
                 /\ out.msw_composted = FMul(msw, r.Total_Materials_sent_to_composting__c)
                 /\ out.msw_digested = FMul(msw, r.Total_Material_managed_by_ADC__c)
                 /\ out.msw_landfilled = r.Municipal_Waste_In_State_in_Tons__c
                 /\ RateIs(out.msw_recycling_rate,
                           FAdd(FAdd(out.msw_recycled, out.msw_composted), out.msw_digested),
                           out.msw_landfilled)

\* two facilities reporting in one year, each with its own rate: 10 / 90 * 100
\* for 5 tons recycled, 5 digested and 80 landfilled, next to 35 / 65 * 100
C9_Witness ==
    /\ pc = "facilities"
    /\ \E k, q \in 1..Len(facility_metrics) :
          /\ facility_metrics[k].data_year = facility_metrics[q].data_year
          /\ facility_metrics[k].row.id # facility_metrics[q].row.id
          /\ facility_metrics[k].row.msw_recycled = F(5)
          /\ facility_metrics[k].row.msw_digested = F(5)
          /\ facility_metrics[k].row.msw_landfilled = F(80)
          /\ facility_metrics[k].row.msw_recycling_rate = Frac(100, 9)
          /\ facility_metrics[q].row.msw_landfilled = F(30)
          /\ facility_metrics[q].row.msw_recycling_rate = Frac(3500, 65)

\* the published id of a facility id: the digits after "SW", leading zeros dropped
C10_IdOf(facility_id) == IF facility_id = SW01 THEN <<"1">> ELSE <<"2">>

\* the nine diverted columns of the records of one facility in one year, added up
C10_TonsOf(facility_id, year) ==
    LET rows == {i \in 1..Len(df) :
                    df[i].facility_id = facility_id /\ df[i].Calendar_Year__c = year}
    IN TotalOf([i \in rows |->
          TotalOf(<<df[i].Combined_Total_of_Material_Recycled__c,
                    df[i].Total_Materials_recycled__c,
                    df[i].Total_Materials_sent_to_composting__c,
                    df[i].Combined_Total_Material_for_Compostion__c,
                    df[i].Total_Material_managed_by_ADC__c,
                    df[i].Combined_Total_Material_for_Combustion__c,
                    df[i].Total_Materials_combusted__c,
                    df[i].Total_waste_tires_recycled_in_Tons__c,
                    df[i].Total_WT_for_combustion_in_Tons__c>>)])

\* C10: for every facility reporting in a year the diverted tons hold exactly
\* one row of that year, whose value is the sum of the nine diverted columns
\* over all records of the facility in the year, or missing when that sum is
\* 0; a sum other than 0 is never reported as missing.
C10_OneValuePerFacility ==
    pc = "done" =>
        \A i \in 1..Len(df) :
            LET rows == {k \in 1..Len(diverted_by_year) :
                            /\ diverted_by_year[k].year = df[i].Calendar_Year__c
                            /\ diverted_by_year[k].row.id_ = C10_IdOf(df[i].facility_id)}
                tons == C10_TonsOf(df[i].facility_id, df[i].Calendar_Year__c)
            IN /\ Cardinality(rows) = 1
               /\ \A k \in rows :
                     diverted_by_year[k].row.tons_of_material_diverted_from_ =
                         (IF tons = F(0) THEN NaN ELSE tons)

(***************************************************************************)
(* Properties of the material rates.                                       *)
(***************************************************************************)
\* the classifications of the records a call is about
C11_Classes == IF classification = "Recycling"
               THEN {"Recycling", "Recycling Facility Non-Permitted"}
               ELSE {classification}

\* the records of the year that the call is about
C11_Matching == {i \in 1..Len(df) : df[i].Classifications__c \in C11_Classes}

\* a percentage or tonnage of a record, 0 when it is missing
C11_OrZero(x) == IF IsNaN(x) THEN F(0) ELSE x

\* the material fields of the call: the list after the call without its two last entries
C11_Materials == SubSeq(renamed_fields, 1, Len(renamed_fields) - 2)

C11_Amount(col) ==
    TotalOf([i \in C11_Matching |->
        FMul(FMul(FDiv(FSub(F(100), C11_OrZero(df[i].Out_of_State__c)), F(100)),
                  FDiv(C11_OrZero(df[i].Municipal_Solid_Waste__c), F(100))),
             C11_OrZero(df[i].material[col]))])

\* C11: the table of material rates has one row per material field of the
\* call, none for the out-of-state and MSW modifier fields, and the amount of
\* a row is the sum over the records of a matching classification of
\* (100 - out-of-state %) / 100 * MSW % / 100 * the tons of the field
\* (missing values counted as 0).
C11_MaterialAmounts ==
    pc = "done" =>
        /\ Out_of_State__c \notin Range(C11_Materials)
        /\ Municipal_Solid_Waste__c \notin Range(C11_Materials)
        /\ Len(material_rates) = Len(C11_Materials)
        /\ \A k \in 1..Len(material_rates) :
              material_rates[k].amount = C11_Amount(C11_Materials[k])

\* a call whose list held the two modifier fields among the materials, on two
\* matching records half out of state and half MSW: 2 * 0.5 * 0.5 * 10 tons
C11_Witness ==
    /\ pc = "done"
    /\ classification = "Composts"
    /\ Len(material_rates) = 2
    /\ Cardinality(C11_Matching) = 2
    /\ \A i \in C11_Matching : df[i].Out_of_State__c = F(50)
    /\ material_rates[1].amount = F(5)
    /\ material_rates[2].amount = F(2)

\* the classifications the spec names for a report classification
C12_Aggregated ==
    CASE classification = "Recycling" -> {"Recycling", "Recycling Facility Non-Permitted"}
      [] classification = "Composts" -> {"Composts"}
      [] OTHER -> {}

\* the records of the year with one of the named classifications, in order
C12_Contributing ==
    FilterSeq(df, {i \in 1..Len(df) : df[i].Classifications__c \in C12_Aggregated})

\* C12: a "Recycling" report aggregates exactly the records classified
\* "Recycling" or "Recycling Facility Non-Permitted" and a "Composts" report
\* exactly the records classified "Composts": every amount is the sum of the
\* shares of those records, so a record of another classification adds nothing.
C12_ClassificationsAggregated ==
    pc = "done" =>
        \A k \in 1..Len(material_rates) :
            material_rates[k].amount =
                FSum([i \in 1..Len(C12_Contributing) |->
                        MaterialShare([c \in Range(renamed_fields) |->
                                          FillNa(FieldValue(C12_Contributing[i], c), F(0))],
                                      renamed_fields[k])])

\* a Recycling report on one permitted and one non-permitted recycler, 10 tons each
C12_Witness ==
    /\ pc = "done"
    /\ classification = "Recycling"
    /\ Len(df) = 2
    /\ df[1].Classifications__c = "Recycling"
    /\ df[2].Classifications__c = "Recycling Facility Non-Permitted"
    /\ material_rates[1].amount = F(20)

\* the share of one record when a missing out-of-state percentage counts as 0
\* and a missing MSW percentage as 100
C13_ShareWhenNeutral(r, col) ==
    FMul(FMul(FDiv(FSub(F(100), FillNa(r.Out_of_State__c, F(0))), F(100)),
              FDiv(FillNa(r.Municipal_Solid_Waste__c, F(100)), F(100))),
         FillNa(r.material[col], F(0)))

\* C13: a record whose out-of-state or MSW percentage is missing raises no
\* error and contributes to every material amount as a record fully in state
\* and fully MSW would (out-of-state 0, MSW 100).
C13_MissingModifiersAreNeutral ==
    (pc = "done" /\ \E i \in 1..Len(df) : IsNaN(df[i].Out_of_State__c)
                                              \/ IsNaN(df[i].Municipal_Solid_Waste__c)) =>
        /\ error = NoError
        /\ \A k \in 1..Len(material_rates) :
              material_rates[k].amount =
                  FSum([i \in 1..Len(C12_Contributing) |->
                          C13_ShareWhenNeutral(C12_Contributing[i], renamed_fields[k])])

\* the amount in the row of the designated total field
C14_TotalAmount ==
    material_rates[CHOOSE k \in 1..Len(material_rates) : renamed_fields[k] = total_field].amount

\* C14: the percent of a material row is its amount divided by the amount of
\* the total field, as a fraction: percent * total = amount, and the total
\* field's own row has percent 1, whenever the total is not 0; when the total
\* is 0 the percent is NaN (amount 0) or an infinity (amount not 0) and no
\* error is raised.
C14_PercentOfTotal ==
    pc = "done" =>
        /\ error = NoError
        /\ \A k \in 1..Len(material_rates) :
              LET row == material_rates[k]
              IN IF C14_TotalAmount.n # 0
                 THEN /\ IsNum(row.percent)
                      /\ row.percent.n * C14_TotalAmount.n * row.amount.d
                            = row.amount.n * row.percent.d * C14_TotalAmount.d
                      /\ renamed_fields[k] = total_field => row.percent = F(1)
                 ELSE row.percent = IF row.amount.n = 0 THEN NaN ELSE Inf(1)

\* a year whose total is 20 tons with 8 tons of plastic: percent 2/5
C14_Witness ==
    /\ pc = "done"
    /\ C14_TotalAmount = F(20)
    /\ \E k \in 1..Len(material_rates) :
          material_rates[k].amount = F(8) /\ material_rates[k].percent = Frac(2, 5)

\* a year whose total is 0 with 5 tons of another material: percent infinite,
\* and NaN for the total itself
C14_ZeroTotal ==
    /\ pc = "done"
    /\ C14_TotalAmount = F(0)
    /\ \E k \in 1..Len(material_rates) :
          material_rates[k].amount = F(5) /\ material_rates[k].percent = Inf(1)
    /\ \E k \in 1..Len(material_rates) : IsNaN(material_rates[k].percent)

\* "Corrugated Boxes"
C15_CorrugatedBoxes ==
    <<"C", "o", "r", "r", "u", "g", "a", "t", "e", "d", " ", "B", "o", "x", "e", "s">>

\* "Other Compostable Material"
C15_OtherCompostableMaterial ==
    <<"O", "t", "h", "e", "r", " ", "C", "o", "m", "p", "o", "s", "t", "a", "b", "l", "e", " ",
      "M", "a", "t", "e", "r", "i", "a", "l">>

\* "Combined Total of Material Received"
C15_CombinedTotal ==
    <<"C", "o", "m", "b", "i", "n", "e", "d", " ", "T", "o", "t", "a", "l", " ", "o", "f", " ",
      "M", "a", "t", "e", "r", "i", "a", "l", " ", "R", "e", "c", "e", "i", "v", "e", "d">>

\* "Plastic"
C15_Plastic ==
    <<"P", "l", "a", "s", "t", "i", "c">>

\* the display name the spec gives for a column
C15_DisplayName(col) ==
    CASE col = Total_Corrugated_Boxes_received__c -> C15_CorrugatedBoxes
      [] col = Total_Other_CM_received__c -> C15_OtherCompostableMaterial
      [] col = Combined_Total_of_Material_Received__c -> C15_CombinedTotal
      [] col = Total_Plastic_Materials_recycled__c -> C15_Plastic

\* C15: material rows carry display names: "Total_" and the "_received__c",
\* "_recycled__c" and "_Materials" endings are stripped, underscores become
\* spaces and "CM" becomes "Compostable Material"; a column without such an
\* ending keeps its full name without "__c" and with spaces for underscores.
C15_DisplayNames ==
    pc = "done" =>
        \A k \in 1..Len(material_rates) :
            material_rates[k].material = C15_DisplayName(renamed_fields[k])

\* a report with all four kinds of column name
C15_Witness ==
    /\ pc = "done"
    /\ Len(material_rates) = 4
    /\ {material_rates[k].material : k \in 1..4} =
          {C15_CorrugatedBoxes, C15_OtherCompostableMaterial, C15_CombinedTotal, C15_Plastic}

(***************************************************************************)
(* Properties of the year-over-year comparison.                            *)
(***************************************************************************)
\* "msw_recycled_pct_change"
C16_msw_recycled_pct_change ==
    <<"m", "s", "w", "_", "r", "e", "c", "y", "c", "l", "e", "d", "_", "p", "c", "t", "_", "c",
      "h", "a", "n", "g", "e">>

\* "msw_recycled_2023"
C16_msw_recycled_2023 ==
    <<"m", "s", "w", "_", "r", "e", "c", "y", "c", "l", "e", "d", "_", "2", "0", "2", "3">>

\* "msw_recycled_2022"
C16_msw_recycled_2022 ==
    <<"m", "s", "w", "_", "r", "e", "c", "y", "c", "l", "e", "d", "_", "2", "0", "2", "2">>

\* "msw_recycled_diff"
C16_msw_recycled_diff ==
    <<"m", "s", "w", "_", "r", "e", "c", "y", "c", "l", "e", "d", "_", "d", "i", "f", "f">>

\* "msw_composted_pct_change"
C16_msw_composted_pct_change ==
    <<"m", "s", "w", "_", "c", "o", "m", "p", "o", "s", "t", "e", "d", "_", "p", "c", "t", "_",
      "c", "h", "a", "n", "g", "e">>

\* "msw_composted_2023"
C16_msw_composted_2023 ==
    <<"m", "s", "w", "_", "c", "o", "m", "p", "o", "s", "t", "e", "d", "_", "2", "0", "2", "3">>

\* "msw_composted_2022"
C16_msw_composted_2022 ==
    <<"m", "s", "w", "_", "c", "o", "m", "p", "o", "s", "t", "e", "d", "_", "2", "0", "2", "2">>

\* "msw_composted_diff"
C16_msw_composted_diff ==
    <<"m", "s", "w", "_", "c", "o", "m", "p", "o", "s", "t", "e", "d", "_", "d", "i", "f", "f">>

\* the value of a metric of an entity in a year of the input table
C16_Value(year, id, metric) ==
    (CHOOSE r \in Range(metrics_df) : r.year = year /\ r.id = id).values[metric]

\* the entities with a row in the year
C16_Entities(year) == {r.id : r \in {x \in Range(metrics_df) : x.year = year}}

\* the row of an entity in the returned table
C16_RowOf(id) == CHOOSE r \in Range(changes.rows) : r.id = id

\* the four columns of a metric hold what the spec says for an entity
C16_MetricOf(id, metric, pct_change, current, previous, diff) ==
    LET cur == C16_Value(current_year, id, metric)
        prev == C16_Value(current_year - 1, id, metric)
        row == C16_RowOf(id).values
    IN /\ row[current] = cur
       /\ row[previous] = prev
       /\ IsNum(row[diff]) /\ FAdd(row[diff], prev) = cur
       /\ prev.n # 0 =>
             /\ IsNum(row[pct_change])
             /\ row[pct_change].n * prev.n * row[diff].d
                   = 100 * row[diff].n * row[pct_change].d * prev.d

\* C16: for 2023 compared with 2022, every entity of both years has, for
\* every metric, metric_diff = value 2023 - value 2022, metric_pct_change =
\* diff / value 2022 * 100 and the two values under metric_2023 and
\* metric_2022; the rows are keyed by the entity alone, one row per entity, and
\* the columns of each metric are adjacent in the order pct_change, 2023,
\* 2022, diff.
C16_Changes ==
    pc = "done" =>
        /\ current_year = 2023
        /\ changes.columns =
              <<C16_msw_recycled_pct_change, C16_msw_recycled_2023,
                C16_msw_recycled_2022, C16_msw_recycled_diff,
                C16_msw_composted_pct_change, C16_msw_composted_2023,
                C16_msw_composted_2022, C16_msw_composted_diff>>
        /\ \A i \in 1..Len(changes.rows) :
              /\ DOMAIN changes.rows[i] = {"id", "values"}
              /\ DOMAIN changes.rows[i].values = Range(changes.columns)
        /\ \A i, j \in 1..Len(changes.rows) : changes.rows[i].id = changes.rows[j].id => i = j
        /\ \A id \in C16_Entities(2023) \cap C16_Entities(2022) :
              /\ \E i \in 1..Len(changes.rows) : changes.rows[i].id = id
              /\ C16_MetricOf(id, msw_recycled, C16_msw_recycled_pct_change,
                              C16_msw_recycled_2023, C16_msw_recycled_2022, C16_msw_recycled_diff)
              /\ C16_MetricOf(id, msw_composted, C16_msw_composted_pct_change,
                              C16_msw_composted_2023, C16_msw_composted_2022,
                              C16_msw_composted_diff)

\* two entities in both years; SW01 recycled 1 ton in 2022 and 5 in 2023:
\* diff 4 and pct_change 400; SW02 composted 2 tons, then none: -100
C16_Witness ==
    /\ pc = "done"
    /\ Len(changes.rows) = 2
    /\ C16_Entities(2023) = {SW01, SW02} /\ C16_Entities(2022) = {SW01, SW02}
    /\ C16_RowOf(SW01).values[C16_msw_recycled_2022] = F(1)
    /\ C16_RowOf(SW01).values[C16_msw_recycled_2023] = F(5)
    /\ C16_RowOf(SW01).values[C16_msw_recycled_diff] = F(4)
    /\ C16_RowOf(SW01).values[C16_msw_recycled_pct_change] = F(400)
    /\ C16_RowOf(SW02).values[C16_msw_composted_diff] = F(-2)
    /\ C16_RowOf(SW02).values[C16_msw_composted_pct_change] = F(-100)

\* the years on the year level of the index of the input table
C17_YearsInIndex == {metrics_df[i].year : i \in 1..Len(metrics_df)}

\* C17: the comparison ends in a fatal error (a ValueError) and returns no
\* table whenever the year asked for or the year before it is not among the
\* years of the index, and it ends without an error and returns a table when
\* both are.
C17_FatalWhenYearAbsent ==
    pc # "year_over_year_changes" =>
        IF current_year \in C17_YearsInIndex /\ (current_year - 1) \in C17_YearsInIndex
        THEN pc = "done" /\ error = NoError /\ changes # <<>>
        ELSE pc = "failed" /\ error.type = "ValueError" /\ changes = <<>>

\* 2024 asked of a table that holds 2022 and 2023
C17_Witness ==
    /\ pc = "failed"
    /\ current_year = 2024
    /\ C17_YearsInIndex = {2022, 2023}
    /\ error = [type |-> "ValueError",
                args |-> <<"Current year", <<"2", "0", "2", "4">>, "not found in index">>]
    /\ changes = <<>>

\* 2023 asked of a table that holds 2023 only
C17_PreviousYearAbsent ==
    /\ pc = "failed"
    /\ current_year = 2023
    /\ C17_YearsInIndex = {2023}
    /\ error = [type |-> "ValueError",
                args |-> <<"Previous year", <<"2", "0", "2", "2">>, "not found in index">>]
    /\ changes = <<>>

\* the four columns of a metric of an entity whose previous value is 0
C18_FromZero(id, metric, pct_change, current, previous, diff) ==
    LET cur == C16_Value(current_year, id, metric)
        row == C16_RowOf(id).values
    IN C16_Value(current_year - 1, id, metric) = F(0) =>
          /\ row[pct_change] = IF cur.n = 0 THEN NaN
                               ELSE IF cur.n > 0 THEN Inf(1) ELSE Inf(-1)
          /\ row[diff] = cur
          /\ row[current] = cur
          /\ row[previous] = F(0)

\* C18: when the previous value of a metric of an entity is 0, no error is
\* raised; pct_change is missing (NaN) if the current value is 0 too and
\* otherwise infinite with the sign of the difference, and diff and the two
\* values are reported exactly.
C18_ChangeFromZero ==
    pc = "done" =>
        /\ error = NoError
        /\ \A id \in C16_Entities(2023) \cap C16_Entities(2022) :
              /\ C18_FromZero(id, msw_recycled, C16_msw_recycled_pct_change,
                              C16_msw_recycled_2023, C16_msw_recycled_2022, C16_msw_recycled_diff)
              /\ C18_FromZero(id, msw_composted, C16_msw_composted_pct_change,
                              C16_msw_composted_2023, C16_msw_composted_2022,
                              C16_msw_composted_diff)

\* SW01 composted nothing in both years (NaN); SW02 recycled nothing, then 1 ton (inf)
C18_Witness ==
    /\ pc = "done"
    /\ C16_Entities(2023) = {SW01, SW02} /\ C16_Entities(2022) = {SW01, SW02}
    /\ C16_Value(2022, SW01, msw_composted) = F(0)
    /\ C16_Value(2023, SW01, msw_composted) = F(0)
    /\ IsNaN(C16_RowOf(SW01).values[C16_msw_composted_pct_change])
    /\ C16_RowOf(SW01).values[C16_msw_composted_diff] = F(0)
    /\ C16_Value(2022, SW02, msw_recycled) = F(0)
    /\ C16_RowOf(SW02).values[C16_msw_recycled_pct_change] = Inf(1)
    /\ C16_RowOf(SW02).values[C16_msw_recycled_diff] = F(1)

\* SW01 composted nothing, then -2 tons (a correction): minus infinity
C18_NegativeFromZero ==
    /\ pc = "done"
    /\ SW01 \in C16_Entities(2023) \cap C16_Entities(2022)
    /\ C16_Value(2022, SW01, msw_composted) = F(0)
    /\ C16_RowOf(SW01).values[C16_msw_composted_pct_change] = Inf(-1)
    /\ C16_RowOf(SW01).values[C16_msw_composted_diff] = F(-2)

(***************************************************************************)
(* Properties of the removal of facilities with null years.                *)
(***************************************************************************)
\* the rows of the facilities none of whose rows has a null year
C19_Kept ==
    {i \in 1..Len(df) :
        \A j \in 1..Len(df) :
            df[j].facility_id = df[i].facility_id => df[j].Calendar_Year__c # <<"None">>}

\* C19: the removal drops every row of a facility that has at least one row
\* with a null year, rows with valid years included, and keeps every row of
\* every other facility unchanged (index label included) and in the original
\* order.
C19_NullYearFacilitiesRemoved ==
    pc = "done" =>
        \E place \in [1..Len(without_null_years) -> 1..Len(df)] :
            /\ {place[k] : k \in 1..Len(without_null_years)} = C19_Kept
            /\ \A k, l \in 1..Len(without_null_years) : k < l => place[k] < place[l]
            /\ \A k \in 1..Len(without_null_years) : without_null_years[k] = df[place[k]]

\* SW01 in 2022 and 2023 and SW02 in 2022 and with a null year: rows 0 and 2 stay
C19_Witness ==
    /\ pc = "done"
    /\ Len(df) = 4
    /\ df[1].facility_id = SW01 /\ df[3].facility_id = SW01
    /\ df[2].facility_id = SW02 /\ df[2].Calendar_Year__c = Y2022
    /\ df[4].facility_id = SW02 /\ df[4].Calendar_Year__c = <<"None">>
    /\ without_null_years = <<df[1], df[3]>>
    /\ without_null_years[2].index = 2

(***************************************************************************)
(* Properties of the field mapping.                                        *)
(***************************************************************************)
\* the places in the catalog of the aliases whose Salesforce field is not a column
C20_Unresolved == {i \in 1..Len(Aliases) : SalesforceFields[i] \notin all_columns}

\* C20: the call returns a mapping, in which every alias of the catalog
\* stands for its field and that field is an existing column, if and only if
\* the field of every alias exists; otherwise it raises an error that names
\* every alias without a column, not just the first, and returns no mapping.
C20_MappingOrAllMissing ==
    pc # "_build_field_mapping" =>
        IF C20_Unresolved = {}
        THEN /\ pc = "done"
             /\ error = NoError
             /\ DOMAIN field_mapping = Range(Aliases)
             /\ \A i \in 1..Len(Aliases) :
                   /\ field_mapping[Aliases[i]] = SalesforceFields[i]
                   /\ field_mapping[Aliases[i]] \in all_columns
        ELSE /\ pc = "failed"
             /\ field_mapping = <<>>
             /\ error.type = "ValueError"
             /\ Range(error.args[2]) = {Aliases[i] : i \in C20_Unresolved}

\* a schema with every field: the mapping has the 47 distinct aliases
C20_Witness ==
    /\ pc = "done"
    /\ Cardinality(DOMAIN field_mapping) = 47
    /\ field_mapping[Aliases[16]] =
          <<"T", "o", "t", "a", "l", "_", "W", "T", "_", "f", "o", "r", "_", "c", "o", "m", "b",
            "u", "s", "t", "i", "o", "n", "_", "i", "n", "_", "T", "o", "n", "s", "_", "_", "c">>
    /\ field_mapping[Aliases[4]] =
          <<"T", "o", "t", "a", "l", "_", "M", "a", "t", "e", "r", "i", "a", "l", "_", "m", "a",
            "n", "a", "g", "e", "d", "_", "b", "y", "_", "A", "D", "C", "_", "_", "c">>

\* a schema without the fields of "Facility Name", "Total Lead-Acid Batteries
\* received" and "Calendar Year": the error names the three
C20_ThreeMissing ==
    /\ pc = "failed"
    /\ error = [type |-> "ValueError",
                args |-> <<"Missing fields: ", <<Aliases[6], Aliases[32], Aliases[51]>>>>]
    /\ field_mapping = <<>>

(***************************************************************************)
(* Properties of a run.                                                    *)
(***************************************************************************)
\* the exception is the one of an alias of the catalog without a column
C21_AliasError ==
    /\ error.type = "ValueError"
    /\ error.args # <<>>
    /\ error.args[1] = "Missing fields: "

\* the exception is the one of a comparison year missing from a table
C21_YearError ==
    /\ error.type = "ValueError"
    /\ Len(error.args) = 3
    /\ error.args[1] \in {"Current year", "Previous year"}
    /\ error.args[3] = "not found in index"

\* C21: in any run, of process() or of the validation, a fatal error (a
\* field-name alias that resolves to no column, or a comparison year missing
\* from an aggregated table) ends the run before the first write to a sink:
\* no truncate-and-load and no report write has been invoked, no summary
\* was sent, and after an alias error nothing was aggregated either.
C21_FatalBeforeFirstWrite ==
    (C21_AliasError \/ C21_YearError) =>
        /\ pc = "failed"
        /\ loads = <<>>
        /\ summary_sent = FALSE
        /\ C21_AliasError => (field_mapping = <<>> /\ aggregated = {} /\ df = <<>>)

\* a run of process() on a schema without the field of "Calendar Year"
C21_Witness ==
    /\ pc = "failed"
    /\ current_year = 0
    /\ error = [type |-> "ValueError", args |-> <<"Missing fields: ", <<Aliases[51]>>>>]
    /\ loads = <<>>
    /\ aggregated = {}

\* a validation run asked for 2024 on records of 2022 and 2023: the first
\* comparison raises and no report was written
C21_CurrentYearMissing ==
    /\ pc = "failed"
    /\ Len(df) = 4
    /\ error = [type |-> "ValueError", args |-> YearNotFound("Current year", 2024)]
    /\ aggregated = {ValidationSteps[i].name : i \in 2..4}
    /\ loads = <<>>

\* a validation run asked for 2023 on one record of 2023
C21_PreviousYearMissing ==
    /\ pc = "failed"
    /\ Len(df) = 1
    /\ error = [type |-> "ValueError", args |-> YearNotFound("Previous year", 2022)]
    /\ loads = <<>>

\* a validation run with both years in the records: three comparisons made
\* and the report written
C21_ReportWritten ==
    /\ pc = "done"
    /\ current_year = 2023
    /\ error = NoError
    /\ loads = <<"to_csv">>
    /\ {"facility_year_over_year", "county_year_over_year", "state_year_over_year"}
          \subseteq aggregated

\* a ValueError that is neither of the two, raised by the contamination
\* rates of process() after four layers were reloaded
C21_OtherValueErrorAfterLoads ==
    /\ pc = "failed"
    /\ error = Raised("ValueError", "_contamination_rates_by_tonnage")
    /\ Len(loads) = 4

\* the aggregations of process()
C30_Aggregations == {ProcessSteps[i].name : i \in {j \in 1..Len(ProcessSteps) :
                                                      ProcessSteps[j].kind = "aggregate"}}

\* the five truncate-and-loads of process() were invoked and have returned
C30_FiveLoadsReturned ==
    /\ Len(loads) = 5
    /\ pc \in {"done", "failed"}
    /\ pc = "failed" => error.args = <<"supervisor.notify">>

\* C30: every aggregation of process() (facility, county, materials
\* recycled, materials composted, statewide totals, contamination rates) has
\* completed before the first truncate-and-load, and the summary is sent
\* only after all five loads have returned.
C30_AggregateThenLoadThenNotify ==
    /\ loads # <<>> => aggregated = C30_Aggregations
    /\ summary_sent => C30_FiveLoadsReturned

\* the part of C30 about the summary alone
C30_SummaryAfterFiveLoads == summary_sent => C30_FiveLoadsReturned

\* the first load step raising before its truncate_and_load_features (the
\* sheets cannot be read): four aggregations made, no layer written
C30_RaisedBeforeFirstWrite ==
    /\ pc = "failed"
    /\ error = Raised("Exception", "_update_facilities")
    /\ Cardinality(aggregated) = 4
    /\ loads = <<>>

\* the statewide layer being prepared raises: six aggregations made, the
\* three columns in records.df, four layers written
C30_RaisedPreparingStatewide ==
    /\ pc = "failed"
    /\ error = Raised("Exception", "statewide_loader")
    /\ aggregated = C30_Aggregations
    /\ Len(df) = 4
    /\ df = WithContaminationColumns(raw_df)
    /\ Len(loads) = 4

\* four layers reloaded and the contamination rates raising the KeyError of
\* a column that records.df does not have
C30_FourLayersReloadedThenError ==
    /\ pc = "failed"
    /\ error = Raised("KeyError", "_contamination_rates_by_tonnage")
    /\ loads = <<"_update_facilities", "_update_counties", "materials_loader",
                 "composting_loader">>
    /\ summary_sent = FALSE

(***************************************************************************)
(* Properties of the recovery rate.                                        *)
(***************************************************************************)
\* the rows of records.df of the year with the integer value
C24_RowsOf(year) == {i \in 1..Len(raw_df) : ParseInt(raw_df[i].Calendar_Year__c) = year}

\* the in-state recycled tons of a record
C24_InState(r) ==
    FMul(r.Combined_Total_of_Material_Recycled__c,
         FDiv(FSub(F(100), r.Out_of_State__c), F(100)))

\* 100 * (1 - contaminated in-state tons / in-state recycled tons) of a year
C24_RateOf(year) ==
    LET contaminated ==
            TotalOf([i \in C24_RowsOf(year) |->
                FMul(FDiv(raw_df[i].Annual_Recycling_Contamination_Rate__c, F(100)),
                     C24_InState(raw_df[i]))])
        recycled == TotalOf([i \in C24_RowsOf(year) |-> C24_InState(raw_df[i])])
    IN FMul(FSub(F(1), FDiv(contaminated, recycled)), F(100))

\* a year with in-state recycled tons
C24_HasInState(year) == \E i \in C24_RowsOf(year) : C24_InState(raw_df[i]) # F(0)

\* every year with in-state tons has the rate of the formula
C24_RatesAsSpecified ==
    \A k \in 1..Len(recovery_rates) :
        C24_HasInState(recovery_rates[k].data_year) =>
            recovery_rates[k].rate = C24_RateOf(recovery_rates[k].data_year)

\* C24: the yearly uncontaminated (recovery) rate is 100 * (1 - sum of
\* contaminated in-state tons / sum of in-state recycled tons) over the
\* records of the year, with contaminated tons = contamination rate / 100 *
\* recycled tons * (100 - out-of-state percent) / 100: two in-state
\* facilities of 100 tons with contamination 10 and 0 give 95, and a record
\* wholly out of state contributes nothing.
C24_UncontaminatedRate == pc = "done" => C24_RatesAsSpecified

\* the same for the older function of main.py alone
C24_OlderFunctionAsSpecified ==
    (pc = "done" /\ \E i \in 1..Len(df) : "recycling_tons_contaminated" \in DOMAIN df[i])
        => C24_RatesAsSpecified

\* two in-state facilities of 100 tons of MSW with contamination 10 and 0,
\* rated by summarize.recovery_rates_by_tonnage at 1800/19 = 94.74
C24_HappyPathBelow95 ==
    /\ pc = "done"
    /\ Len(df) = 2
    /\ "recovery_rate" \in DOMAIN df[1]
    /\ \A i \in 1..2 : /\ raw_df[i].Calendar_Year__c = Y2022
                       /\ raw_df[i].Out_of_State__c = F(0)
                       /\ raw_df[i].Municipal_Solid_Waste__c = F(100)
    /\ raw_df[1].Annual_Recycling_Contamination_Rate__c = F(10)
    /\ raw_df[2].Annual_Recycling_Contamination_Rate__c = F(0)
    /\ C24_RateOf(2022) = F(95)
    /\ recovery_rates = <<[data_year |-> 2022, rate |-> Frac(1800, 19)]>>

(***************************************************************************)
(* Properties of the aggregators as a whole.                               *)
(***************************************************************************)
\* C22: running the aggregators (county, statewide, facility, material
\* rate, recovery rate) twice in succession on the same in-memory records
\* and the same field lists yields identical aggregate tables on both runs.
C22_SecondRunIdentical ==
    (first_run # <<>> /\ pc \in {"facilities", "done", "failed"})
        => AggregateTables = first_run[1]

\* the material rates computed a second time, from the list the first call
\* had already extended by the two modifier fields
C22_Witness ==
    /\ first_run # <<>>
    /\ pc = "done"
    /\ Len(material_rates) = 4
    /\ material_rates[1].amount = F(5)
    /\ renamed_fields = MaterialFields \o <<Out_of_State__c, Municipal_Solid_Waste__c>>

\* the recovery rates computed a second time, from the table that has the
\* columns of the first call
C22_RecoveryTwice ==
    /\ first_run # <<>>
    /\ pc = "done"
    /\ recovery_rates # <<>>
    /\ recovery_rates[1].rate = Frac(1800, 19)
    /\ "recovery_rate" \in DOMAIN df[1]

\* the county, statewide and facility tables computed a second time
C22_CountiesTwice ==
    /\ first_run # <<>>
    /\ pc = "facilities"
    /\ Len(statewide) = 2
    /\ Len(facility_metrics) = 2

\* C23: every aggregation function is side-effect-free: after it returns,
\* the record table it was given has the same columns and values as before
\* the call, and the field list it was given has the same elements in the
\* same order.
C23_SideEffectFree ==
    [][/\ df' = df
       /\ renamed_fields' = renamed_fields
       /\ county_fields' = county_fields]_vars

\* the county, statewide and facility aggregators leave the table and the
\* list of county fields as they were
C23_CountyAggregatorsLeaveInputs ==
    [][(pc \in {"counties", "statewide_metrics", "facility_metrics"})
          => (df' = df /\ county_fields' = county_fields)]_vars

\* the caller's list of material fields after the first call: the two
\* modifier fields have been added to it
C23_FieldListExtended ==
    /\ pc = "done"
    /\ first_run = <<>>
    /\ classification = Recycling
    /\ renamed_fields = MaterialFields \o <<Out_of_State__c, Municipal_Solid_Waste__c>>

\* the caller's record table after the first call: five columns more than
\* the table that was passed
C23_ColumnsAdded ==
    /\ pc = "done"
    /\ first_run = <<>>
    /\ recovery_rates # <<>>
    /\ DOMAIN df[1] = DOMAIN raw_df[1] \cup
           {"in_state_modifier", "msw_modifier", "recovery_rate", "in_state_msw_recycled",
            "in_state_msw_received_for_recycling"}

(***************************************************************************)
(* Conservation of tonnage by the allocation to counties.                  *)
(***************************************************************************)
\* the records of a year
C26_Records(year) == {i \in 1..Len(df) : df[i].Calendar_Year__c = year}

\* the shares of a record over the county fields of the call add up to 100
C26_SharesComplete(r) ==
    TotalOf([j \in 1..Len(county_fields) |-> r.county[county_fields[j]]]) = F(100)

\* the total over the records of a year of the MSW part of a tonnage field
C26_MswTotal(year, field) ==
    TotalOf([i \in C26_Records(year) |->
                FMul(FDiv(df[i].Municipal_Solid_Waste__c, F(100)), df[i][field])])

\* the Statewide row of the county summary of a year
C26_StatewideRow(year) ==
    county_by_year[CHOOSE k \in 1..Len(county_by_year) :
                      /\ county_by_year[k].year = year
                      /\ county_by_year[k].row.name = StatewideName].row

\* C26: if the county share fields of every record of a year sum to 100,
\* the four tonnage totals of the Statewide row of county_summaries equal
\* the facility-level totals of the year: recycled, composted and digested
\* are the sums over the records of MSW percent / 100 * the tonnage, and
\* landfilled is the sum of the in-state municipal waste tons; the
\* allocation to counties neither loses nor double-counts tonnage.
C26_TonnageConserved ==
    CountiesDone =>
        \A year \in {df[i].Calendar_Year__c : i \in 1..Len(df)} :
            (\A i \in C26_Records(year) : C26_SharesComplete(df[i])) =>
                LET state == C26_StatewideRow(year)
                IN /\ state.county_wide_msw_recycled =
                         C26_MswTotal(year, "Combined_Total_of_Material_Recycled__c")
                   /\ state.county_wide_msw_composted =
                         C26_MswTotal(year, "Total_Materials_sent_to_composting__c")
                   /\ state.county_wide_msw_digested =
                         C26_MswTotal(year, "Total_Material_managed_by_ADC__c")
                   /\ state.county_wide_msw_landfilled =
                         TotalOf([i \in C26_Records(year) |->
                                     df[i].Municipal_Waste_In_State_in_Tons__c])

\* two records of 2022 allocated over three county fields, one of them 40%
\* out of state: 110 landfilled tons and 15 recycled MSW tons in the
\* Statewide row
C26_Witness ==
    /\ CountiesDone
    /\ Len(county_fields) = 3
    /\ Len(df) = 2
    /\ \A i \in 1..2 : df[i].Calendar_Year__c = Y2022 /\ C26_SharesComplete(df[i])
    /\ df[1].county[Out_of_State__c] = F(40)
    /\ C26_StatewideRow(Y2022).county_wide_msw_landfilled = F(110)
    /\ C26_StatewideRow(Y2022).county_wide_msw_recycled = F(15)

\* with shares that add up to 60 over the two county fields of the call, the
\* Statewide row holds less than the facilities reported
C26_IncompleteSharesLoseTonnage ==
    /\ CountiesDone
    /\ Len(county_fields) = 2
    /\ Len(df) = 1
    /\ ~C26_SharesComplete(df[1])
    /\ C26_StatewideRow(df[1].Calendar_Year__c).county_wide_msw_landfilled = F(48)
    /\ df[1].Municipal_Waste_In_State_in_Tons__c = F(80)

(***************************************************************************)
(* Entities of one year only in the comparison of two years.               *)
(***************************************************************************)
\* the entities with a row in exactly one of the two years compared
C27_OneYearOnly ==
    (C16_Entities(current_year) \cup C16_Entities(current_year - 1))
        \ (C16_Entities(current_year) \cap C16_Entities(current_year - 1))

\* the value of a metric of an entity in the year it has a row in
C27_PresentValue(id, col) ==
    (CHOOSE r \in Range(metrics_df) :
        r.id = id /\ r.year \in {current_year, current_year - 1}).values[col]

\* the row of an entity of one year only: the value of the year it has,
\* and nothing for the other year, the diff and the percent change
C27_RowOfOneYear(id) ==
    LET row == C16_RowOf(id).values
        in_current == id \in C16_Entities(current_year)
        present(col) == YearColumn(col, IF in_current THEN current_year ELSE current_year - 1)
        absent(col) == YearColumn(col, IF in_current THEN current_year - 1 ELSE current_year)
    IN \A k \in 1..Len(MetricColumns) :
          LET col == MetricColumns[k]
          IN /\ row[present(col)] = C27_PresentValue(id, col)
             /\ IsNaN(row[absent(col)])
             /\ IsNaN(row[DiffColumn(col)])
             /\ IsNaN(row[PctChangeColumn(col)])

\* C27: the year-over-year comparator outputs exactly one row for every
\* entity that appears in the target year or in the year before it; for an
\* entity present in only one of the two years no error is raised, the
\* value of the absent year, the diff and the pct_change are missing, and
\* the value of the present year is reported unchanged.
C27_OneRowPerEntity ==
    /\ (pc \in {"done", "failed"}
          /\ C16_Entities(current_year) # {} /\ C16_Entities(current_year - 1) # {})
         => pc = "done" /\ error = NoError
    /\ pc = "done" =>
          /\ {changes.rows[i].id : i \in 1..Len(changes.rows)} =
                C16_Entities(current_year) \cup C16_Entities(current_year - 1)
          /\ \A i, j \in 1..Len(changes.rows) :
                changes.rows[i].id = changes.rows[j].id => i = j
          /\ \A id \in C27_OneYearOnly : C27_RowOfOneYear(id)

\* SW01 in 2022 only, SW02 in 2023 only: two rows, each with the five tons
\* recycled of its own year and nothing else
C27_Witness ==
    /\ pc = "done"
    /\ current_year = 2023
    /\ C16_Entities(2022) = {SW01} /\ C16_Entities(2023) = {SW02}
    /\ Len(changes.rows) = 2
    /\ C16_RowOf(SW01).values[C16_msw_recycled_2022] = F(5)
    /\ IsNaN(C16_RowOf(SW01).values[C16_msw_recycled_2023])
    /\ C16_RowOf(SW02).values[C16_msw_recycled_2023] = F(5)
    /\ IsNaN(C16_RowOf(SW02).values[C16_msw_recycled_diff])
    /\ IsNaN(C16_RowOf(SW02).values[C16_msw_recycled_pct_change])

(***************************************************************************)
(* Properties of the facility information.                                 *)
(***************************************************************************)
\* the records of the facilities published under an id
C28_RecordsOf(id_) == {i \in 1..Len(df) : PublishedId(df[i].facility_id) = id_}

\* a row of the summary carries phone, website, drop-off flag and name of a
\* record of its facility that no other record of the facility is newer than
C28_CarriesLatest(row) ==
    \E i \in C28_RecordsOf(row.id_) :
        /\ \A j \in C28_RecordsOf(row.id_) : df[j].LastModifiedDate <= df[i].LastModifiedDate
        /\ row.phone_no_ = df[i].Facility_Phone_Number__c
        /\ row.website = df[i].Facility_Website__c
        /\ row.accept_material_dropped_off_by_ = df[i].Are_materials_accepted_for_drop_off__c
        /\ row.facility_name = df[i].Facility_Name__c

\* one row per row of the facility summary, in its order, each with the
\* information of the latest record of its facility
C28_OneRowEachWithLatest ==
    /\ Len(facility_summaries) = Len(diverted_by_year)
    /\ \A j \in 1..Len(facility_summaries) :
          /\ facility_summaries[j].id_ = diverted_by_year[j].row.id_
          /\ facility_summaries[j].data_year = ParseInt(diverted_by_year[j].year)
          /\ C28_CarriesLatest(facility_summaries[j])

\* two distinct raw facility ids have distinct published ids
C28_PublishedIdsDistinct ==
    \A i, j \in 1..Len(df) :
        df[i].facility_id # df[j].facility_id
            => PublishedId(df[i].facility_id) # PublishedId(df[j].facility_id)

\* C28: _add_facility_info returns exactly one row per row of the facility
\* summary it is given, carrying the phone, website, drop-off flag and name
\* of the record with the most recent LastModifiedDate among all records of
\* that facility; two distinct raw facility ids never map to the same
\* published id (first three characters removed, leading zeros stripped), so
\* the join on the published id never duplicates or mixes facilities.
C28_FacilityInfo ==
    pc = "done" => (C28_PublishedIdsDistinct /\ C28_OneRowEachWithLatest)

\* the same for the records whose raw ids have distinct published ids
C28_FacilityInfoOfDistinctIds ==
    (pc = "done" /\ C28_PublishedIdsDistinct) => C28_OneRowEachWithLatest

\* SW01 reported twice, the later report with another phone number and
\* another spelling of the name: both of its rows carry the later ones
C28_LatestOfTwoYears ==
    /\ pc = "done"
    /\ Len(df) = 2
    /\ df[1].facility_id = SW01 /\ df[2].facility_id = SW01
    /\ df[1].LastModifiedDate = 20230102 /\ df[2].LastModifiedDate = 20220101
    /\ df[1].Facility_Phone_Number__c = <<"5", "5", "6">>
    /\ df[2].Facility_Phone_Number__c = <<"5", "5", "5">>
    /\ df[1].Facility_Name__c = Foo /\ df[2].Facility_Name__c = foo
    /\ Len(facility_summaries) = 2
    /\ \A j \in 1..2 : /\ facility_summaries[j].phone_no_ = <<"5", "5", "6">>
                       /\ facility_summaries[j].facility_name = Foo

\* SW01 and LF01, one record each in 2022, both published as "1": four rows
\* for two facilities, each facility once with the phone of the other
C28_TwoFacilitiesFourRows ==
    /\ pc = "done"
    /\ Len(df) = 2
    /\ df[1].facility_id = SW01 /\ df[2].facility_id = LF01
    /\ df[1].Facility_Phone_Number__c # df[2].Facility_Phone_Number__c
    /\ Len(diverted_by_year) = 2
    /\ Len(facility_summaries) = 4
    /\ \A j \in 1..4 : facility_summaries[j].id_ = <<"1">>
    /\ facility_summaries[1].phone_no_ # facility_summaries[2].phone_no_

(***************************************************************************)
(* Properties of the display labels of the material columns.               *)
(***************************************************************************)
C29_PaperAndPaperboard ==
    <<"P", "a", "p", "e", "r", " ", "a", "n", "d", " ", "P", "a", "p", "e", "r", "b", "o", "a",
      "r", "d">>

\* the label of the paper column of the composting report
C29_PaperExpandedTwice ==
    <<"P", "a", "p", "e", "r", " ", "a", "n", "d", " ", "P", "a", "p", "e", "r", "b", "o", "a",
      "r", "d", " ", "a", "n", "d", " ", "P", "a", "p", "e", "r", " ", "a", "n", "d", " ", "P",
      "a", "p", "e", "r", "b", "o", "a", "r", "d", "b", "o", "a", "r", "d">>

\* "Total_Paper_Materials_recycled__c"
C29_Total_Paper_Materials_recycled__c == FieldName(recycling_fields[2])

\* "Total_Paper_and_Paperboard_receiced_C__c"
C29_Total_Paper_and_Paperboard_receiced_C__c == FieldName(composting_fields[3])

\* the labels of the report, one per column of the list, for its first year
C29_Labels ==
    [k \in 1..(Len(renamed_fields) - 2) |-> material_rates[k].material]

\* the label of a column of the report
C29_LabelOf(col) ==
    C29_Labels[CHOOSE k \in 1..(Len(renamed_fields) - 2) : renamed_fields[k] = col]

\* C29: for every material column of the recycling and composting catalogs
\* each abbreviation expansion of the renaming is applied at most once to
\* the label, so the paper columns Total_Paper_Materials_recycled__c and
\* Total_Paper_and_Paperboard_receiced_C__c both get the display label
\* "Paper and Paperboard", and two distinct catalog columns of one report
\* never get the same label.
C29_LabelsOfCatalogs ==
    pc = "done" =>
        /\ \A col \in {C29_Total_Paper_Materials_recycled__c,
                       C29_Total_Paper_and_Paperboard_receiced_C__c} :
              col \in Range(renamed_fields) => C29_LabelOf(col) = C29_PaperAndPaperboard
        /\ \A j, k \in 1..Len(C29_Labels) : C29_Labels[j] = C29_Labels[k] => j = k

\* the two halves that hold: the paper column of the recycling report is
\* labelled "Paper and Paperboard", and the labels of a report are distinct
C29_RecycledPaperAndDistinctLabels ==
    pc = "done" =>
        /\ C29_Total_Paper_Materials_recycled__c \in Range(renamed_fields)
              => C29_LabelOf(C29_Total_Paper_Materials_recycled__c) = C29_PaperAndPaperboard
        /\ \A j, k \in 1..Len(C29_Labels) : C29_Labels[j] = C29_Labels[k] => j = k

\* the composting report of the mapping built by helpers._build_field_mapping:
\* thirteen labels, the paper column with the expansion applied to the label
\* that already was "Paper and Paperboard"
C29_CompostedPaperLabel ==
    /\ pc = "done"
    /\ classification = Composts
    /\ DOMAIN field_mapping = Range(Aliases)
    /\ Len(renamed_fields) = 15
    /\ renamed_fields[2] = C29_Total_Paper_and_Paperboard_receiced_C__c
    /\ material_rates[2].material = C29_PaperExpandedTwice

\* the recycling report of the mapping of all its aliases: thirteen labels,
\* the paper column labelled "Paper and Paperboard"
C29_RecycledPaperLabel ==
    /\ pc = "done"
    /\ classification = Recycling
    /\ Len(renamed_fields) = 15
    /\ renamed_fields[2] = C29_Total_Paper_Materials_recycled__c
    /\ material_rates[2].material = C29_PaperAndPaperboard

(***************************************************************************)
(* Properties of the order of the fields.                                  *)
(***************************************************************************)
\* the fields of a list other than the two modifier fields, in their order
C25_Others(list) ==
    FilterSeq(list, {k \in 1..Len(list) :
                        list[k] \notin {Out_of_State__c, Municipal_Solid_Waste__c}})

\* C25: for any input field list, _update_fields returns a list whose last
\* two elements are Out_of_State__c followed by Municipal_Solid_Waste__c
\* (added when absent), in which all other fields keep their original
\* relative order, and applying _update_fields to its own result returns the
\* same list.
C25_ModifiersLast ==
    pc \in {"_update_fields again", "done"} =>
        LET n == Len(renamed_fields)
        IN /\ n >= 2
           /\ renamed_fields[n - 1] = Out_of_State__c
           /\ renamed_fields[n] = Municipal_Solid_Waste__c
           /\ C25_Others(renamed_fields) = C25_Others(given_fields)
           /\ renamed_fields = C25_Others(given_fields)
                                  \o <<Out_of_State__c, Municipal_Solid_Waste__c>>
           /\ pc = "done" => renamed_fields = first_run[1]

\* ["foo", "Municipal_Solid_Waste__c", "Out_of_State__c", "bar"] reordered,
\* and unchanged by the second call
C25_Witness ==
    /\ pc = "done"
    /\ given_fields = <<foo, Municipal_Solid_Waste__c, Out_of_State__c, bar>>
    /\ renamed_fields = <<foo, bar, Out_of_State__c, Municipal_Solid_Waste__c>>
    /\ first_run = <<renamed_fields>>

\* both modifier fields added to a list without them
C25_BothAdded ==
    /\ pc = "done"
    /\ given_fields = <<foo, bar>>
    /\ renamed_fields = <<foo, bar, Out_of_State__c, Municipal_Solid_Waste__c>>

(***************************************************************************)
(* The records of a run after the contamination rates.                     *)
(***************************************************************************)
\* the contamination rates of a run over four records, two of them wholly
\* out of state: 90 for both years, computed after four loads, with the
\* three columns of the computation left in records.df
C30_RatesWrittenIntoRecords ==
    /\ pc = "statewide_loader"
    /\ Len(loads) = 4
    /\ Len(df) = 4
    /\ \A i \in 1..4 :
          DOMAIN df[i] = DOMAIN raw_df[i] \cup
              {"in_state_modifier", "recycling_tons_contaminated",
               "recycling_tons_report_contamination_total"}
    /\ recovery_rates = <<[data_year |-> 2022, rate |-> F(90)],
                          [data_year |-> 2023, rate |-> F(90)]>>

\* the contamination rates raise after their writes (in the groupby of
\* main.py:479-488 or the index map of 491): four layers reloaded, no rates
\* returned, no summary, and the three columns left in records.df
C30_RaisedAfterWrites ==
    /\ pc = "failed"
    /\ error = Raised("Exception", "_contamination_rates_by_tonnage")
    /\ Len(loads) = 4
    /\ summary_sent = FALSE
    /\ recovery_rates = <<>>
    /\ Len(df) = 4
    /\ df = WithContaminationColumns(raw_df)

\* the raise after the first assignment only (the KeyError of main.py:469)
C30_RaisedAfterFirstWrite ==
    /\ pc = "failed"
    /\ error = Raised("KeyError", "_contamination_rates_by_tonnage")
    /\ Len(df) = 4
    /\ \A i \in 1..4 : DOMAIN df[i] = DOMAIN raw_df[i] \cup {"in_state_modifier"}
    /\ df[2].in_state_modifier = F(0)

\* the raise in the assignment of main.py:475-477: the total column is there
\* and holds pd.NA in every row, the contaminated tons are known
C30_RaisedBeforeTotalFilled ==
    /\ pc = "failed"
    /\ error.args = <<"_contamination_rates_by_tonnage">>
    /\ Len(loads) = 4
    /\ Len(df) = 4
    /\ \A i \in 1..4 :
          /\ DOMAIN df[i] = DOMAIN raw_df[i] \cup
                {"in_state_modifier", "recycling_tons_contaminated",
                 "recycling_tons_report_contamination_total"}
          /\ df[i].recycling_tons_report_contamination_total = NaN
    /\ df[1].recycling_tons_contaminated = F(10)

=============================================================================
